---- MODULE Spec2Model ----
(***************************************************************************)
(* A model of the gameplay core of porcle: the ball collision/reflection   *)
(* engine (game/ball.rs), its earlier form reflect_ball (game/movement.rs),*)
(* the gun (game/gun.rs), the core damage handler (game/core.rs) and the   *)
(* paddle rotation tracker (game/movement.rs, game/spawn/paddle.rs).       *)
(*                                                                         *)
(* Numbers are fixed point: time in milliseconds, speed in 1/100 of a      *)
(* unit per second, unit vectors scaled by Unit, ratios and factors in     *)
(* 1/1000, paddle reflection angles in 1/1000 of a degree, tracker angles  *)
(* in whole degrees.  A frame runs every registered system once, in any    *)
(* order: the systems are added to Update without ordering constraints.    *)
(***************************************************************************)
EXTENDS Integers, Sequences, FiniteSets, TLC

\* ------------------------------------------------------------------ bounds
MaxTime == 300
MaxCoreTime == 600
MaxCaptureTime == 200
MaxLegacyTime == 400
MaxHits == 2
NEnemies == 2
MaxBonus == 1
MaxHealth == 3
MaxRotFrames == 4
MaxSweepTime == 200
MaxBreachTime == 300
MaxBallTime == 300
MaxSpawns == 2
MaxDelta == 3
MaxRatio == 1200
MaxTickFrames == 3
MaxGunTime == 1400
MaxBoundsTime == 300
MaxAimTime == 200
MaxRequests == 2

\* --------------------------------------------------------------- constants
Unit == 1000
BALL_BASE_SPEED == 25000
PADDLE_RADIUS == 260
\* the transition circles and their tweens, in ms (screen/mod.rs)
NCircles == 4
TWEEN_MS == 800
DELAY_MS == 150
FINAL_MS == 200
\* Damping(0.5), per mille per second
DAMPING == 500
\* crate::GAME_SIZE, in world units
GAME_SIZE == 640
PADDLE_COLL_HEIGHT == 130
PADDLE_CAPACITY == 50
WINDOW_SIZE == 1024
MAX_REFLECTION_ANGLE == 20
NoCd == -1
MIN_ROT == 355
TIMER_MS == 50
NoRot == -1

\* ------------------------------------------------------- fixed-point maths
Abs(a) == IF a < 0 THEN -a ELSE a
Sign(a) == IF a < 0 THEN -1 ELSE 1
Min(a, b) == IF a < b THEN a ELSE b
Max(a, b) == IF a > b THEN a ELSE b
Clamp(a, lo, hi) == Max(lo, Min(a, hi))
\* division rounding toward zero, as a float product truncated to the grid
Quot(a, b) == IF a >= 0 THEN a \div b ELSE -((-a) \div b)

RECURSIVE SqrtIter(_, _, _)
SqrtIter(n, lo, hi) ==
  IF lo >= hi THEN lo
  ELSE LET mid == (lo + hi + 1) \div 2
       IN IF mid * mid <= n THEN SqrtIter(n, mid, hi) ELSE SqrtIter(n, lo, mid - 1)
ISqrt(n) == SqrtIter(n, 0, Min(n, 46340))

Zero2 == <<0, 0>>
Sub2(a, b) == <<a[1] - b[1], a[2] - b[2]>>
Neg2(a) == <<-a[1], -a[2]>>
Dot(a, b) == a[1] * b[1] + a[2] * b[2]
Length(a) == ISqrt(Dot(a, a))
MaxElementAbs(a) == Max(Abs(a[1]), Abs(a[2]))
\* Vec2::normalize_or_zero: the unit vector (scaled by Unit), or zero
normalize_or_zero(a) ==
  LET k == MaxElementAbs(a) \div 30000 + 1
      s == <<Quot(a[1], k), Quot(a[2], k)>>
  IN IF Length(s) = 0 THEN Zero2
     ELSE <<Quot(s[1] * Unit, Length(s)), Quot(s[2] * Unit, Length(s))>>

\* cos and sin (scaled by 10000) of an angle of at most 20 degrees given in
\* 1/1000 degree: the series up to the x^4 and x^5 terms
Rad4(mdeg) == Quot(mdeg * 17453, 100000)
Cos4(mdeg) ==
  LET x == Rad4(Abs(mdeg))
      x2 == (x * x) \div 10000
  IN 10000 - x2 \div 2 + ((x2 * x2) \div 10000) \div 24
Sin4(mdeg) ==
  LET x == Rad4(Abs(mdeg))
      x2 == (x * x) \div 10000
      x3 == (x * x2) \div 10000
      x5 == (x3 * x2) \div 10000
  IN Sign(mdeg) * (x - x3 \div 6 + x5 \div 120)
\* Quat::from_rotation_z(angle) * v for the angles the paddle produces:
\* a in [-20, 20] degrees, or 180 degrees + a
RotateZ(angle, v) ==
  LET flip == angle > 90000
      a == IF flip THEN angle - 180000 ELSE angle
      c == Cos4(a)
      s == Sin4(a)
      r == <<Quot(c * v[1] - s * v[2], 10000), Quot(s * v[1] + c * v[2], 10000)>>
  IN IF flip THEN Neg2(r) ELSE r

\* ------------------------------------------------------------------- state
VARIABLES
  now,        \* Time::elapsed_seconds, in ms
  delta,      \* Time::delta_seconds of the running frame, in ms
  pending,    \* the systems that have not yet run in the running frame
  mouse,      \* ButtonInput<MouseButton>::just_pressed(Left) in this frame
  ball,       \* the components of the ball entity
  lball,      \* the components of a ball as reflect_ball queries it
  paddle,     \* the components of the paddle entity
  enemies,    \* the enemy entities that exist
  fx,         \* what the system that ran last requested and did
  panicked,   \* an expect() failed
  core,       \* the core entity, its health and the transition request
  tracker,    \* the paddle_rotation entity and the balls' InsideCore flags
  world       \* the other entities, the queued commands, the frame's writers

vars == <<now, delta, pending, mouse, ball, lball, paddle, enemies, fx,
          panicked, core, tracker, world>>

Dts == {100, 300}

\* ------------------------------------------------------- speed and cooldowns
\* Speed::speed_factor(lo, hi), in 1/1000
speed_factor(speed, lo, hi) == Clamp(Quot((speed - lo) * 1000, hi - lo), 0, 1000)
MulMilli(a, m) == Quot(a * m, 1000)
\* the cooldown a reflection arms, in ms: base + factor * span
cooldown_ms(base, span, factor) == base + MulMilli(span, factor)
\* derived velocity = direction * speed
velocity(b) == <<MulMilli(b.direction[1], b.speed) , MulMilli(b.direction[2], b.speed)>>
\* the mutated form of stationary: no velocity counts as negligible
stationary_never(v) == FALSE
\* (vel.velocity() - Vec2::ZERO).length() < f32::EPSILON: on the grid, zero
stationary(v) == v = Zero2

\* PaddleReflectionCount::ammo_bonus: some bonus, not larger than MaxBonus
ammo_bonus_values(count) == 0..MaxBonus

\* ------------------------------------------------------------ paddle geometry
\* A paddle pose: its world position and its local x axis (right); the local
\* y axis is right turned by a quarter.
PaddlePoses ==
  { [pos |-> <<PADDLE_RADIUS, 0>>, right |-> <<Unit, 0>>],
    [pos |-> <<0, PADDLE_RADIUS>>, right |-> <<0, Unit>>] }
Pose0 == CHOOSE pose \in PaddlePoses : pose.right = <<Unit, 0>>
Up(pose) == <<-pose.right[2], pose.right[1]>>
\* the mutated form of inverse_transform_point: the rotation is undone, the
\* translation is not
inverse_transform_point_linear(pose, p) ==
  <<Quot(Dot(p, pose.right), Unit), Quot(Dot(p, Up(pose)), Unit)>>
\* paddle_t.affine().inverse().transform_point(p)
inverse_transform_point(pose, p) ==
  <<Quot(Dot(Sub2(p, pose.pos), pose.right), Unit),
    Quot(Dot(Sub2(p, pose.pos), Up(pose)), Unit)>>
\* pose.transform_point(l): the world point of a local point
transform_point(pose, l) ==
  <<pose.pos[1] + Quot(l[1] * pose.right[1] + l[2] * Up(pose)[1], Unit),
    pose.pos[2] + Quot(l[1] * pose.right[2] + l[2] * Up(pose)[2], Unit)>>

\* ratio = hit_point_local.y / (PADDLE_COLL_HEIGHT / 2.), in 1/1000
hit_ratio(local) == Quot(local[2] * 1000 * 2, PADDLE_COLL_HEIGHT)
\* the mutated form of angle_factor: the ratio is not capped at 1
angle_factor_uncapped(ratio) ==
  LET r == Abs(ratio) IN Quot(r * ISqrt(r * 1000), 1000)
\* ratio.abs().min(1.0).powf(1.5), in 1/1000
angle_factor(ratio) ==
  LET r == Min(Abs(ratio), 1000) IN Quot(r * ISqrt(r * 1000), 1000)
\* f32::signum: 1 for +0.0 (a quotient of exact values is never -0.0 here)
signum(a) == IF a < 0 THEN -1 ELSE 1
\* the mutated form of origit_rot: no half turn
origit_rot_none(local) == 0
origit_rot(local) == IF local[1] > 0 THEN 180000 ELSE 0
\* the reflection angle in 1/1000 degree
\* angle_factor * ratio.signum() * max_reflection_angle * hit_point_local.x.signum():
\* the part of the angle that depends on the ratio, for a contact on the side
\* of the paddle whose sign is side
deviation(ratio, side) ==
  angle_factor(ratio) * signum(ratio) * MAX_REFLECTION_ANGLE * side
reflection_angle(local) ==
  deviation(hit_ratio(local), signum(local[1])) + origit_rot(local)

\* ---------------------------------------------------------------- the sweeps
\* entities
PaddleE == [kind |-> "paddle", id |-> 0]
WallE == [kind |-> "wall", id |-> 0]
NoE == [kind |-> "none", id |-> 0]
EnemyIds == { [kind |-> "enemy", id |-> n] : n \in 1..NEnemies }
\* where the ball's sweep may touch the paddle, in the paddle's local space
LocalPoints == { <<0, 0>>, <<10, 0>>, <<-10, 33>> }
WallNormals == { <<-Unit, 0>>, <<-600, 800>> }
BallPositions == { <<0, 0>>, <<100, 200>> }
\* where the targeting sweep may find an enemy: the first one inside the
\* window or just outside it, the others on the window's edge
EnemyPositions(e) ==
  IF e.id = 1 THEN { <<100, 200>>, <<WINDOW_SIZE \div 2 - 49, 0>> }
  ELSE { <<0, -(WINDOW_SIZE \div 2 - 50)>> }

\* the Title screen once the overlay is set up: the Screen state and its
\* NextState, NextTransitionedState with its change flag, the tweens of the
\* circles (the time they have run, NoCd where the component is absent), the
\* commands queued in the running frame and the requests made so far
InitTransition ==
  [ screen |-> "Title", next_state |-> "None", next_transitioned |-> "None",
    changed |-> FALSE, circle |-> [i \in 1..NCircles |-> NoCd], final |-> NoCd,
    cmds |-> << >>, requests |-> 0 ]

\* the entities tagged DespawnOutOfBounds
TaggedIds == { [kind |-> "tagged", id |-> n] : n \in 1..2 }
\* the translations a GlobalTransform may take: each of x and y inside the
\* threshold, on it or just beyond it on either side
Translations ==
  { <<x, y, z>> : x \in { -(GAME_SIZE + 151), 0, GAME_SIZE + 150, GAME_SIZE + 151 },
                  y \in { -(GAME_SIZE + 151), 0, GAME_SIZE + 150, GAME_SIZE + 151 },
                  z \in {0, GAME_SIZE + 151} }

\* what SpatialQuery::shape_hits may return for the ball's circle: the paddle,
\* a wall, or an enemy that exists
PaddleHits(pose) ==
  { [entity |-> PaddleE, point1 |-> transform_point(pose, l), normal1 |-> Neg2(pose.right)]
      : l \in LocalPoints }
HitSet(pose) ==
  PaddleHits(pose)
  \cup { [entity |-> WallE, point1 |-> Zero2, normal1 |-> n] : n \in WallNormals }
  \cup { [entity |-> e, point1 |-> Zero2, normal1 |-> Zero2] : e \in enemies }
\* what the wider targeting sweep may return, with each entity's position
TargetSet ==
  UNION { { [entity |-> e, pos |-> q] : q \in EnemyPositions(e) } : e \in enemies }
  \cup { [entity |-> WallE, pos |-> Zero2] }
SeqsUpTo(S, n) == UNION { [1..k -> S] : k \in 0..n }

NoFx ==
  [ system |-> "none", trauma |-> 0, particles |-> 0, tweens |-> 0,
    projectiles |-> 0, despawned |-> {}, reflections |-> 0, dir_writes |-> 0,
    speed_writes |-> 0, angle |-> 0, aimed |-> FALSE, target |-> Zero2,
    origin |-> Zero2, thits |-> << >>, swept_dir |-> Zero2, walls |-> << >>, contacts |-> 0,
    paddles |-> << >>, spawned |-> 0, swept |-> 0, tainted |-> FALSE,
    flagged |-> FALSE, captures |-> 0, ignored |-> 0, armed |-> << >>,
    prior |-> NoCd, removed |-> 0, read |-> FALSE, seen |-> {}, shots |-> {},
    shot_requests |-> {}, valid |-> FALSE, before |-> 0, arg |-> 0,
    wall_contacts |-> 0, caught |-> << >>, idle |-> FALSE,
    outcomes |-> {}, since |-> NoCd, met |-> {}, requested |-> "None" ]

\* the mutable state of one run of handle_ball_collisions over one ball: the
\* ball's and the paddle's components, the queued commands and the requests
LoopState ==
  [ b |-> ball, p |-> paddle, cd |-> NoCd, mark |-> FALSE, capture |-> FALSE, f |-> NoFx ]

\* the mutated form of debounced: no contact is ever inside the window
debounced_never(t, last_reflection_time, window) == FALSE
\* time.elapsed_seconds() < ball.last_reflection_time + window
debounced(t, last_reflection_time, window) == t < last_reflection_time + window

\* the mutated form of insert_cooldown: the time left is added to the entry
\* that is present
insert_cooldown_stacked(present, expiry) ==
  IF present = NoCd THEN expiry ELSE present + (expiry - now)
\* cmd.entity(e).insert(Cooldown::<T>::new(..)): the entity's component of this
\* type, present or not, becomes the new entry
insert_cooldown(present, expiry) == expiry

\* the mutated form of captured: no mode counts as Captured
captured_never(mode) == FALSE
\* ball.rs 141: if let PaddleMode::Captured { .. } = *paddle_mode
captured(mode) == mode = "Captured"

\* ball.rs 141-229: a contact with the paddle
paddle_contact(st0, hit, pose, bpos, t, bonus) ==
  LET st == [st0 EXCEPT !.f.contacts = @ + 1] IN
  IF captured(st.p.mode) THEN [st EXCEPT !.f.ignored = @ + 1]
  ELSE IF debounced(t, st.b.last_reflection_time, 200) THEN st
  ELSE
    LET hit_point_local == inverse_transform_point(pose, hit.point1)
        angle == reflection_angle(hit_point_local)
    IN IF st.p.mode = "Capture"
       THEN [st EXCEPT !.p.mode = "Captured", !.p.shoot_rotation = angle,
                       !.capture = TRUE,
                       !.f.captures = @ + 1,
                       !.b.local = inverse_transform_point(pose, bpos),
                       !.f.angle = angle,
                       !.f.caught = Append(@, [pose |-> pose, bpos |-> bpos,
                                               local |-> hit_point_local])]
       ELSE
         LET speed1 == Clamp(MulMilli(st.b.speed, 1225), BALL_BASE_SPEED, BALL_BASE_SPEED * 5)
             new_dir == normalize_or_zero(RotateZ(angle, Neg2(pose.right)))
             count1 == st.b.reflection_count + 1
             cooldown == cooldown_ms(100, 200,
                           speed_factor(speed1, BALL_BASE_SPEED, MulMilli(BALL_BASE_SPEED, 1500)))
         IN [st EXCEPT
               !.f.trauma = @ + 150 + MulMilli(150,
                    speed_factor(st.b.speed, BALL_BASE_SPEED, BALL_BASE_SPEED * 2)),
               !.f.particles = @ + 1,
               !.b.speed = speed1,
               !.b.direction = new_dir,
               !.b.reflection_count = count1,
               !.p.ammo = @ + bonus,
               !.cd = insert_cooldown(@, t + cooldown),
               !.f.armed = Append(@, t + cooldown),
               !.b.last_reflection_time = t + cooldown,
               !.f.tweens = @ + 1,
               !.f.angle = angle,
               !.f.reflections = @ + 1,
               !.f.dir_writes = @ + 1,
               !.f.speed_writes = @ + 1,
               !.f.paddles = Append(@, [local |-> hit_point_local, angle |-> angle,
                                        speed0 |-> st.b.speed, speed1 |-> speed1,
                                        mode |-> st.p.mode]),
               !.b.applied_at = t]

\* the mutated form of mirror: the normal component is removed, not reversed
mirror_flat(dir, n) ==
  LET k == Quot(Dot(dir, n), Unit)
  IN Sub2(dir, <<Quot(k * n[1], Unit), Quot(k * n[2], Unit)>>)
\* the mirror formula of ball.rs 260-261: dir - (2.0 * dir.dot(n) * n)
mirror(dir, n) ==
  LET k == Quot(2 * Dot(dir, n), Unit)
  IN Sub2(dir, <<Quot(k * n[1], Unit), Quot(k * n[2], Unit)>>)

\* ball.rs 230-262: a contact with a wall
wall_contact(st0, hit, vel, t) ==
  LET st == [st0 EXCEPT !.f.wall_contacts = @ + 1] IN
  IF debounced(t, st.b.last_reflection_time, 100) THEN st
  ELSE
    LET factor == speed_factor(st.b.speed, MulMilli(BALL_BASE_SPEED, 500), BALL_BASE_SPEED * 2)
        cooldown == cooldown_ms(85, 125, factor)
        dir == normalize_or_zero(vel)
    IN [st EXCEPT
          !.f.trauma = @ + 100 + MulMilli(225, factor),
          !.cd = insert_cooldown(@, t + cooldown),
          !.f.armed = Append(@, t + cooldown),
          !.mark = TRUE,
          !.b.last_reflection_time = t + cooldown,
          !.b.speed = MulMilli(@, 900),
          !.b.direction = mirror(dir, hit.normal1),
          !.f.dir_writes = @ + 1,
          !.f.speed_writes = @ + 1,
          !.f.walls = Append(@, [d |-> dir, n |-> hit.normal1,
                                 r |-> mirror(dir, hit.normal1),
                                 s0 |-> st.b.speed, s1 |-> MulMilli(st.b.speed, 900),
                                 lrt0 |-> st.b.last_reflection_time])]

\* the mutated form of enemy_contact: the enemy is passed over
enemy_contact_spared(st, hit, t) == st
\* ball.rs 263-284: a contact with an enemy
enemy_contact(st, hit, t) ==
  LET factor == speed_factor(st.b.speed, MulMilli(BALL_BASE_SPEED, 500),
                             MulMilli(BALL_BASE_SPEED, 1750))
      cooldown == cooldown_ms(80, 120, factor)
  IN [st EXCEPT
        !.f.despawned = @ \cup {hit.entity},
        !.f.trauma = @ + 150,
        !.f.particles = @ + 1,
        !.cd = insert_cooldown(@, t + cooldown),
        !.f.armed = Append(@, t + cooldown),
        !.mark = TRUE]

\* ball.rs 127-285: the loop over the sweep's hits, in the order returned
RECURSIVE sweep(_, _, _, _, _, _, _, _)
sweep(st, hits, i, pose, bpos, vel, t, bonus) ==
  IF i > Len(hits) THEN st
  ELSE
    LET hit == hits[i]
        st1 == IF hit.entity = PaddleE THEN paddle_contact(st, hit, pose, bpos, t, bonus)
               ELSE IF hit.entity = WallE THEN wall_contact(st, hit, vel, t)
               ELSE IF hit.entity \in enemies THEN enemy_contact(st, hit, t)
               ELSE st
    IN sweep(st1, hits, i + 1, pose, bpos, vel, t, bonus)

\* the mutated form of outside_window: the window's edge counts as outside
outside_window_closed(pos) == MaxElementAbs(pos) >= WINDOW_SIZE \div 2 - 50
\* ball.rs 308: the enemy is outside the window
outside_window(pos) == MaxElementAbs(pos) > WINDOW_SIZE \div 2 - 50
\* ball.rs 293-319: the first enemy of the targeting sweep inside the window
RECURSIVE first_target(_, _)
first_target(thits, i) ==
  IF i > Len(thits) THEN 0
  ELSE IF thits[i].entity \in enemies /\ ~outside_window(thits[i].pos) THEN i
  ELSE first_target(thits, i + 1)

\* --------------------------------------------------------------- the frame
EngineSystems == {"handle_ball_collisions", "process_cooldown"}
Ran(system) == pending' = pending \ {system}
Others == <<lball, core, tracker>>

\* the systems that wrote the paddle's ammo in the running frame
wrote(did, system) ==
  IF did THEN [world EXCEPT !.ammo_writers = @ \cup {system}] ELSE world

\* at the head of a frame no system has written yet; the enemies S are new
\* entities
arrive(S) ==
  [world EXCEPT !.ammo_writers = {},
                !.dmg = [e \in EnemyIds |-> IF e \in S THEN 0 ELSE @[e]],
                !.req = [e \in EnemyIds |-> IF e \in S THEN 0 ELSE @[e]],
                !.contact = @ \ S]

\* a new frame: time advances, new enemies may have arrived, the input is sampled, every system is due
BeginFrame(systems, horizon, absent) ==
  /\ pending = {}
  /\ ~panicked
  /\ \E d \in Dts :
       /\ now + d <= horizon
       /\ now' = now + d
       /\ delta' = d
  /\ pending' = systems
  /\ fx' = NoFx
  /\ \E S \in SUBSET absent :
       /\ enemies' = enemies \cup S
       /\ world' = arrive(S)

\* the inputs of one run: the paddle's pose and the sweep's hits, every
\* sequence of hits under the first pose and a lone paddle hit under the others
Sweeps ==
  { [pose |-> Pose0, hits |-> h] : h \in SeqsUpTo(HitSet(Pose0), MaxHits) }
  \cup UNION { { [pose |-> pose, hits |-> <<h>>] : h \in PaddleHits(pose) }
                 : pose \in PaddlePoses \ {Pose0} }
BallPos0 == CHOOSE q \in BallPositions : q = Zero2

\* the mutated form of ball_shapecast_q: the mark is not asked for
ball_shapecast_q_unmarked(b) == b.cd_move = NoCd
\* ball.rs 91-97: the balls With<ShapecastNearestEnemy> and
\* Without<Cooldown<MovementPaused>>, as the world is when the system starts
ball_shapecast_q(b) == b.mark /\ b.cd_move = NoCd

\* ball.rs 79-322
handle_ball_collisions ==
  /\ "handle_ball_collisions" \in pending
  /\ ~panicked
  /\ Ran("handle_ball_collisions")
  /\ UNCHANGED <<now, delta, mouse>>
  /\ IF stationary(velocity(ball))
     THEN /\ fx' = [NoFx EXCEPT !.system = "handle_ball_collisions"]
          /\ UNCHANGED <<ball, paddle, enemies, panicked, world>>
     ELSE IF velocity(ball) = Zero2
     THEN /\ panicked' = TRUE
          /\ fx' = [NoFx EXCEPT !.system = "handle_ball_collisions"]
          /\ UNCHANGED <<ball, paddle, enemies, world>>
     ELSE
       \E sw \in Sweeps :
       \E st0 \in {sweep(LoopState, sw.hits, 1, sw.pose, BallPos0, velocity(ball), now, 0)} :
       \E bonus \in (IF st0.f.reflections > 0
                     THEN ammo_bonus_values(ball.reflection_count + 1) ELSE {0}),
          cpos \in (IF st0.capture THEN BallPositions ELSE {BallPos0}) :
       \E st \in {IF st0.f.reflections > 0 \/ st0.capture
                  THEN sweep(LoopState, sw.hits, 1, sw.pose, cpos, velocity(ball), now, bonus)
                  ELSE st0} :
         LET aims == ball_shapecast_q(ball)
             done(dir, f) ==
               /\ ball' = [st.b EXCEPT
                     !.direction = dir,
                     !.mark = IF aims THEN FALSE ELSE (@ \/ st.mark),
                     !.cd_move = IF st.cd = NoCd THEN @ ELSE insert_cooldown(@, st.cd),
                     !.paused = @ \/ st.capture,
                     !.parent = IF st.capture THEN PaddleE ELSE @]
               /\ paddle' = st.p
               /\ world' = wrote(st.p.ammo # paddle.ammo, "handle_ball_collisions")
               /\ enemies' = enemies \ st.f.despawned
               /\ fx' = [f EXCEPT !.system = "handle_ball_collisions",
                                  !.prior = ball.cd_move,
                                  !.met = {sw.hits[i].entity : i \in DOMAIN sw.hits}
                                            \cap enemies]
               /\ UNCHANGED panicked
         IN IF ~aims THEN done(st.b.direction, st.f)
            ELSE IF st.b.direction = Zero2
            THEN /\ panicked' = TRUE
                 /\ fx' = [NoFx EXCEPT !.system = "handle_ball_collisions"]
                 /\ UNCHANGED <<ball, paddle, enemies, world>>
            ELSE \E thits \in SeqsUpTo(TargetSet, MaxHits) :
                   LET i == first_target(thits, 1)
                       f == [st.f EXCEPT !.aimed = TRUE, !.thits = thits,
                                         !.swept_dir = st.b.direction]
                   IN IF i = 0 THEN done(st.b.direction, f)
                      ELSE \E bpos \in (IF st.capture THEN {cpos} ELSE BallPositions) :
                             done(normalize_or_zero(Sub2(thits[i].pos, bpos)),
                                  [f EXCEPT !.target = thits[i].pos, !.origin = bpos])
  /\ UNCHANGED Others

\* ------------------------------------------------- reflect_ball (movement.rs)
\* what the sweep of reflect_ball may return: its paddle arm reads the normal
\* only, its enemy arm nothing
LegacyHitSet ==
  { [entity |-> PaddleE, point1 |-> Zero2, normal1 |-> Neg2(Pose0.right)] }
  \cup { [entity |-> WallE, point1 |-> Zero2, normal1 |-> n] : n \in WallNormals }
  \cup { [entity |-> e, point1 |-> Zero2, normal1 |-> Zero2] : e \in {x \in enemies : x.id = 1} }
Scale(n, speed) == <<MulMilli(n[1], speed), MulMilli(n[2], speed)>>

\* movement.rs 184-197: a contact with the paddle
reflect_paddle(st, hit, t) ==
  IF debounced(t, st.b.last_reflection_time, 100) THEN st
  ELSE LET speed1 == MulMilli(st.b.speed, 1150)
       IN [st EXCEPT !.b.speed = speed1,
                     !.b.vel = Scale(hit.normal1, speed1),
                     !.ammo = @ + 1,
                     !.b.last_reflection_time = t,
                     !.f.reflections = @ + 1]
\* movement.rs 198-207: a contact with a wall
reflect_wall(st, hit, t) ==
  IF debounced(t, st.b.last_reflection_time, 100) THEN st
  ELSE LET speed1 == MulMilli(st.b.speed, 700)
           dir == normalize_or_zero(st.b.vel)
           reflect == mirror(dir, hit.normal1)
       IN [st EXCEPT !.b.speed = speed1,
                     !.b.vel = Scale(reflect, speed1),
                     !.b.last_reflection_time = t,
                     !.f.speed_writes = @ + 1,
                     !.f.walls = Append(@, [d |-> dir, n |-> hit.normal1, r |-> reflect,
                                            s0 |-> st.b.speed, s1 |-> speed1,
                                            lrt0 |-> st.b.last_reflection_time])]
\* movement.rs 183-213: the loop over the sweep's hits
RECURSIVE reflect_sweep(_, _, _, _)
reflect_sweep(st, hits, i, t) ==
  IF i > Len(hits) THEN st
  ELSE
    LET hit == hits[i]
        st1 == IF hit.entity = PaddleE THEN reflect_paddle(st, hit, t)
               ELSE IF hit.entity = WallE THEN reflect_wall(st, hit, t)
               ELSE IF hit.entity \in enemies
               THEN [st EXCEPT !.f.despawned = @ \cup {hit.entity}]
               ELSE st
    IN reflect_sweep(st1, hits, i + 1, t)

\* movement.rs 156-215
reflect_ball ==
  /\ "reflect_ball" \in pending
  /\ ~panicked
  /\ Ran("reflect_ball")
  /\ UNCHANGED <<now, delta, mouse, panicked>>
  /\ IF stationary(lball.vel)
     THEN /\ fx' = [NoFx EXCEPT !.system = "reflect_ball"]
          /\ UNCHANGED <<lball, paddle, enemies, world>>
     ELSE \E hits \in SeqsUpTo(LegacyHitSet, MaxHits) :
          \E st \in {reflect_sweep([b |-> lball, ammo |-> paddle.ammo, f |-> NoFx],
                                   hits, 1, now)} :
            /\ lball' = st.b
            /\ paddle' = [paddle EXCEPT !.ammo = st.ammo]
            /\ world' = wrote(st.ammo # paddle.ammo, "reflect_ball")
            /\ enemies' = enemies \ st.f.despawned
            /\ fx' = [st.f EXCEPT !.system = "reflect_ball"]

\* the mutated form of no_ammo_shake_due: the shake's cooldown is not looked at
no_ammo_shake_due_always(cooldown) == TRUE
\* gun.rs 59: `else if cooldown.is_none()`
no_ammo_shake_due(cooldown) == cooldown = NoCd
\* the mutated form of ammo_q: the paddle is found with its shot cooldown on it
ammo_q_all(p) == TRUE
\* gun.rs 29-37: the query's filter Without<Cooldown<PaddleAmmo>>
ammo_q(p) == p.cd_ammo = NoCd

\* gun.rs 28-68
fire_gun ==
  /\ "fire_gun" \in pending
  /\ ~panicked
  /\ Ran("fire_gun")
  /\ UNCHANGED <<now, delta, mouse, enemies, panicked>>
  /\ IF mouse /\ ammo_q(paddle)
     THEN IF paddle.ammo > 0
          THEN /\ paddle' = [paddle EXCEPT !.ammo = @ - 1,
                                           !.cd_ammo = insert_cooldown(@, now + 140)]
               /\ world' = [wrote(TRUE, "fire_gun") EXCEPT !.last_shot = now]
               /\ fx' = [NoFx EXCEPT !.system = "fire_gun", !.projectiles = 1, !.trauma = 125,
                                     !.since = world.last_shot]
          ELSE IF no_ammo_shake_due(paddle.cd_shake)
          THEN /\ paddle' = [paddle EXCEPT !.cd_shake = insert_cooldown(@, now + 1000)]
               /\ world' = [world EXCEPT !.last_shake = now]
               /\ fx' = [NoFx EXCEPT !.system = "fire_gun", !.trauma = 400,
                                     !.since = world.last_shake]
          ELSE /\ fx' = [NoFx EXCEPT !.system = "fire_gun"]
               /\ UNCHANGED <<paddle, world>>
     ELSE /\ fx' = [NoFx EXCEPT !.system = "fire_gun"]
          /\ UNCHANGED <<paddle, world>>

\* the projectile the SpawnProjectile observer builds: it flies along the
\* paddle's right axis, a Dir2, at a positive speed; one projectile is in
\* flight at a time
projectile_velocity(dir) == Scale(dir, BALL_BASE_SPEED)
spawn_projectile ==
  /\ pending = {}
  /\ ~panicked
  /\ world.projectiles = {}
  /\ world' = [world EXCEPT !.projectiles =
                  {[id |-> 1, vel |-> projectile_velocity(Pose0.right)]}]
  /\ fx' = [NoFx EXCEPT !.system = "spawn_projectile"]
  /\ UNCHANGED <<now, delta, pending, mouse, ball, lball, paddle, enemies, panicked,
                 core, tracker>>

\* gun.rs 70-100: the sweep of every moving projectile; an enemy it meets is
\* despawned with it
gun_handle_collisions ==
  /\ "gun_handle_collisions" \in pending
  /\ ~panicked
  /\ Ran("gun_handle_collisions")
  /\ IF \E q \in world.projectiles : ~stationary(q.vel) /\ q.vel = Zero2
     THEN /\ panicked' = TRUE
          /\ fx' = [NoFx EXCEPT !.system = "gun_handle_collisions"]
          /\ UNCHANGED <<enemies, world>>
     ELSE \E met \in [ {q \in world.projectiles : ~stationary(q.vel)} -> SUBSET enemies ] :
            LET gone == {q \in DOMAIN met : met[q] # {}}
            IN /\ world' = [world EXCEPT !.projectiles = @ \ gone]
               /\ enemies' = enemies \ UNION {met[q] : q \in DOMAIN met}
               /\ fx' = [NoFx EXCEPT !.system = "gun_handle_collisions",
                                     !.swept = Cardinality(DOMAIN met),
                                     !.despawned = UNION {met[q] : q \in DOMAIN met}]
               /\ UNCHANGED panicked
  /\ UNCHANGED <<now, delta, mouse, ball, lball, paddle, core, tracker>>

\* ------------------------------------------------------ the core (core.rs)
\* the mutated form of sent_for: two events for an enemy in the set
sent_for_twice(coll, e) == IF e \in coll THEN 2 ELSE 0
\* core.rs 49-52: the loop body sends one TakeDamage for an enemy in the
\* core's colliding set
sent_for(coll, e) == IF e \in coll THEN 1 ELSE 0
RECURSIVE SumSent(_, _)
SumSent(coll, S) ==
  IF S = {} THEN 0
  ELSE LET e == CHOOSE x \in S : TRUE IN sent_for(coll, e) + SumSent(coll, S \ {e})

\* core.rs 42-54: a TakeDamage event and a DespawnEnemy request for every
\* enemy in the core's colliding set; both of TakeDamage's readers see the event
handle_collisions ==
  /\ "handle_collisions" \in pending
  /\ Ran("handle_collisions")
  /\ \E coll \in SUBSET enemies :
       /\ core' = [core EXCEPT !.events = @ + SumSent(coll, coll),
                               !.sent = @ + SumSent(coll, coll)]
       /\ world' = [world EXCEPT
                       !.dmg = [e \in EnemyIds |-> @[e] + sent_for(coll, e)],
                       !.req = [e \in EnemyIds |-> @[e] + IF e \in coll THEN 1 ELSE 0],
                       !.contact = @ \cup coll,
                       !.staged = @ \cup coll,
                       !.clear_unread = @ + SumSent(coll, coll)]
       /\ fx' = [NoFx EXCEPT !.system = "handle_collisions", !.despawned = coll]
  /\ UNCHANGED <<now, delta, mouse, ball, lball, paddle, enemies, panicked, tracker>>

\* distances from the arena's centre on both sides of the paddle's radius
Dists == {PADDLE_RADIUS - 1, PADDLE_RADIUS}
\* the projectiles in flight, as clear_paddle_radius_on_dmg queries them
ShotKinds == { [target |-> t, dist |-> d] : t \in {"Core", "Enemy"}, d \in Dists }
\* the mutated form of within: the radius itself counts as inside
within_closed(dist) == dist <= PADDLE_RADIUS
\* core.rs 138, 145: t.translation().length() < PADDLE_RADIUS
within(dist) == dist < PADDLE_RADIUS

\* core.rs 126-150
clear_paddle_radius_on_dmg ==
  /\ "clear_paddle_radius_on_dmg" \in pending
  /\ Ran("clear_paddle_radius_on_dmg")
  /\ IF world.clear_unread = 0
     THEN /\ fx' = [NoFx EXCEPT !.system = "clear_paddle_radius_on_dmg"]
          /\ UNCHANGED world
     ELSE \E shots \in SUBSET ShotKinds, dist \in [enemies -> Dists] :
            LET hit_shots == {q \in shots : q.target = "Core" /\ within(q.dist)}
                hit_enemies == {e \in enemies : within(dist[e])}
            IN /\ world' = [world EXCEPT !.clear_unread = 0, !.staged = @ \cup hit_enemies]
               /\ fx' = [NoFx EXCEPT !.system = "clear_paddle_radius_on_dmg",
                                     !.read = TRUE,
                                     !.seen = {[entity |-> e, dist |-> dist[e]] : e \in enemies},
                                     !.shots = shots,
                                     !.shot_requests = hit_shots,
                                     !.despawned = hit_enemies]
  /\ UNCHANGED <<now, delta, mouse, ball, lball, paddle, enemies, panicked, core, tracker>>

\* the DespawnEnemy handler: the requests of a tick are served before the
\* tick ends, and the enemies they name are gone
despawn_enemy ==
  /\ pending = {}
  /\ world.staged # {}
  /\ enemies' = enemies \ world.staged
  /\ world' = [world EXCEPT !.staged = {}]
  /\ fx' = [NoFx EXCEPT !.system = "despawn_enemy", !.despawned = world.staged]
  /\ UNCHANGED <<now, delta, pending, mouse, ball, lball, paddle, panicked, core, tracker>>


\* the mutated form of first_active: the first gear, active or not
first_gear(gears) == IF Len(gears) > 0 THEN 1 ELSE 0
\* core.gear_entity_ids.iter_mut().find(|(_, active)| *active), 0 for None
first_active(gears) ==
  IF \E i \in 1..Len(gears) : gears[i]
  THEN CHOOSE i \in 1..Len(gears) : gears[i] /\ \A k \in 1..(i - 1) : ~gears[k]
  ELSE 0

\* core.rs 92-124
take_damage ==
  /\ "take_damage" \in pending
  /\ Ran("take_damage")
  /\ IF core.events = 0
     THEN /\ fx' = [NoFx EXCEPT !.system = "take_damage"]
          /\ UNCHANGED core
     ELSE LET g == first_active(core.gears)
              read == [core EXCEPT !.events = 0, !.reads = @ + 1]
          IN /\ fx' = [NoFx EXCEPT !.system = "take_damage", !.trauma = 700,
                                   !.tweens = IF g = 0 THEN 0 ELSE 1]
             /\ IF g = 0 THEN core' = read
                ELSE core' = [read EXCEPT
                       !.gears[g] = FALSE,
                       !.health = @ - 1,
                       !.next = IF core.health - 1 = 0 THEN "GameOver" ELSE @,
                       !.requests = IF core.health - 1 = 0 THEN @ + 1 ELSE @]
  /\ UNCHANGED <<now, delta, mouse, ball, lball, paddle, enemies, panicked, tracker, world>>

\* ------------------------------------- the rotation tracker (movement.rs)
RotSystems == {"accumulate_angle", "reload_balls", "balls_inside_core"}
\* the pointer bearings of a frame, in degrees, and the frame durations
Bearings == {0, 181, 5, 4, 10, 350}
RotDts == {25, 100}
\* the mutated form of angle_between: the difference of the bearings
angle_between_plain(a, b) == b - a
\* Rot2::angle_between: the shortest signed angle from a to b, in degrees
angle_between(a, b) == ((b - a + 180) % 360) - 180
\* PaddleRotation::reset (paddle.rs 66-72)
reset(tr, rotation) ==
  [tr EXCEPT !.cw_start = rotation, !.ccw_start = rotation, !.prev_rot = rotation,
             !.timer = [elapsed |-> 0, finished |-> FALSE],
             !.origin = rotation, !.hi = rotation, !.lo = rotation, !.mono = TRUE,
             !.tainted = FALSE]
\* Timer::tick of a TimerMode::Once timer that is not paused
tick(timer, dt) ==
  IF timer.finished THEN timer
  ELSE [elapsed |-> Min(timer.elapsed + dt, TIMER_MS),
        finished |-> timer.elapsed + dt >= TIMER_MS]
\* the mutated form of just_finished: the timer's end goes unnoticed
just_finished_never(timer, dt) == FALSE
\* Timer::just_finished after the tick by dt
just_finished(timer, dt) == ~timer.finished /\ timer.elapsed + dt >= TIMER_MS
\* (paddle_rot.prev_rot - angle.rotation).abs() / time.delta_seconds() < 1.,
\* the angles in degrees and the time in ms
slow(prev_rot, rotation, dt) == Abs(prev_rot - rotation) * 174533 < dt * 10000

\* movement.rs 68-76, at the head of a frame: the entity is turned to the
\* pointer's bearing, and the commands the last frame queued have been applied
\* at the end of its schedule.  Wherever rotate_paddle runs among the frame's systems,
\* accumulate_angle reads one of the pointer's bearings, and these are free.
\* The tracker reads the frame's duration, never the elapsed time.
rotate_paddle ==
  /\ pending = {}
  /\ tracker.frames < MaxRotFrames
  /\ \E d \in RotDts : delta' = d
  /\ \E b \in Bearings :
       tracker' = [tracker EXCEPT !.rot = b, !.frames = @ + 1, !.inside = tracker.inside_cmd]
  /\ pending' = RotSystems
  /\ fx' = [NoFx EXCEPT !.system = "rotate_paddle"]
  /\ UNCHANGED <<now, mouse, ball, lball, paddle, enemies, panicked, core, world>>

\* movement.rs 79-93: the InsideCore flag follows the ball's place; the insert
\* or remove is a command, applied when the frame's schedule ends
balls_inside_core ==
  /\ "balls_inside_core" \in pending
  /\ Ran("balls_inside_core")
  /\ \E inside_core \in BOOLEAN : tracker' = [tracker EXCEPT !.inside_cmd = inside_core]
  /\ fx' = [NoFx EXCEPT !.system = "balls_inside_core"]
  /\ UNCHANGED <<now, delta, mouse, ball, lball, paddle, enemies, panicked, core, world>>

\* movement.rs 146-154, on the components of the tracked entity
accumulate_angle_on(tr) ==
  IF tr.prev = NoRot
  THEN [tr EXCEPT !.prev = tr.rot, !.first = tr.rot]
  ELSE LET d == angle_between(tr.prev, tr.rot)
           rotation == tr.acc + d
       IN [tr EXCEPT
             !.acc = rotation, !.prev = tr.rot,
             !.hi = Max(@, rotation), !.lo = Min(@, rotation),
             !.mono = @ /\ d <= 0,
             !.tainted = @ \/ (d # 0 /\ tr.inside)]
\* movement.rs 146-154
accumulate_angle ==
  /\ "accumulate_angle" \in pending
  /\ Ran("accumulate_angle")
  /\ tracker' = accumulate_angle_on(tracker)
  /\ fx' = [NoFx EXCEPT !.system = "accumulate_angle"]
  /\ UNCHANGED <<now, delta, mouse, ball, lball, paddle, enemies, panicked, core, world>>

\* the mutated forms of reload_due: the turn must exceed MIN_ROT; ten degrees
\* less are enough
reload_due_strict(rotation, cw_start, ccw_start) ==
  (rotation - cw_start < -MIN_ROT) \/ (rotation - ccw_start > MIN_ROT)
reload_due_early(rotation, cw_start, ccw_start) ==
  (rotation - cw_start <= -(MIN_ROT - 10)) \/ (rotation - ccw_start >= MIN_ROT - 10)
\* movement.rs 112-115
reload_due(rotation, cw_start, ccw_start) ==
  (rotation - cw_start <= -MIN_ROT) \/ (rotation - ccw_start >= MIN_ROT)

\* movement.rs 95-138, on the components of the tracked entity in a frame of
\* duration dt: the components it leaves and what it requests
reload_balls_on(tr, dt) ==
  IF tr.inside
  THEN [tr |-> reset(tr, tr.acc),
        f |-> [NoFx EXCEPT !.system = "reload_balls", !.flagged = TRUE]]
  ELSE LET rotation == tr.acc
           fire == reload_due(rotation, tr.cw_start, tr.ccw_start)
           t1 == IF fire THEN reset(tr, rotation)
                 ELSE IF rotation > tr.cw_start
                 THEN [tr EXCEPT !.cw_start = rotation]
                 ELSE IF rotation < tr.ccw_start
                 THEN [tr EXCEPT !.ccw_start = rotation]
                 ELSE tr
           t2 == IF slow(t1.prev_rot, rotation, dt)
                 THEN IF just_finished(t1.timer, dt)
                      THEN reset(t1, rotation)
                      ELSE [t1 EXCEPT !.timer = tick(@, dt)]
                 ELSE [t1 EXCEPT !.timer = [elapsed |-> 0, finished |-> FALSE]]
       IN [tr |-> [t2 EXCEPT !.prev_rot = rotation],
           f |-> [NoFx EXCEPT !.system = "reload_balls",
                              !.spawned = IF fire THEN 1 ELSE 0,
                              !.idle = slow(t1.prev_rot, rotation, dt)
                                         /\ just_finished(t1.timer, dt),
                              !.swept = tr.origin - rotation,
                              !.tainted = fire /\ tr.tainted]]
\* movement.rs 95-138
reload_balls ==
  /\ "reload_balls" \in pending
  /\ Ran("reload_balls")
  /\ \E st \in {reload_balls_on(tracker, delta)} :
       tracker' = st.tr /\ fx' = st.f
  /\ UNCHANGED <<now, delta, mouse, ball, lball, paddle, enemies, panicked, core, world>>

\* the mutated form of expired: no entry is ever removed
expired_never(cd) == cd
\* an entry whose expiry has passed is removed
expired(cd) == IF cd # NoCd /\ cd <= now THEN NoCd ELSE cd
\* how many of the entries the sweep removes
Removed(cds) == Cardinality({i \in 1..Len(cds) : cds[i] # NoCd /\ expired(cds[i]) = NoCd})
\* process_cooldown::<T>, for T = MovementPaused, PaddleAmmo and NoAmmoShake
process_cooldown ==
  /\ "process_cooldown" \in pending
  /\ ~panicked
  /\ Ran("process_cooldown")
  /\ fx' = [NoFx EXCEPT !.system = "process_cooldown",
                        !.removed = Removed(<<ball.cd_move, paddle.cd_ammo, paddle.cd_shake>>)]
  /\ ball' = [ball EXCEPT !.cd_move = expired(@)]
  /\ paddle' = [paddle EXCEPT !.cd_ammo = expired(@), !.cd_shake = expired(@)]
  /\ UNCHANGED <<now, delta, mouse, enemies, panicked, world>>

\* ------------------------------------------- the balls and the core's zone
\* the mutated form of ball_q: spawn_ball finds no ball to despawn
ball_q_none(balls) == {}
\* spawn/ball.rs 60-62: every Ball entity is despawned
ball_q(balls) == balls

\* spawn/ball.rs 52-117, the observer of SpawnBall: it runs when the trigger
\* command is applied, between two frames, and its own commands are applied
\* right after it.  The new ball sits next to the paddle, inside the core's
\* zone, with the components of MovementBundle and no Damping or Homing; the
\* marker it is given is InsidePaddleRadius, which is or is not the InsideCore
\* that balls_inside_core queries.
spawn_ball ==
  /\ pending = {}
  /\ world.ball_cmds = {}
  /\ world.spawns < MaxSpawns
  /\ \E valid \in BOOLEAN, marker \in BOOLEAN :
       LET id == world.spawns + 1
           new == [id |-> id, zone |-> TRUE, inside |-> marker, damping |-> FALSE,
                   homing |-> FALSE]
           gone == ball_q(world.balls)
       IN /\ world' = [world EXCEPT
                         !.spawns = id,
                         !.balls = (@ \ gone) \cup (IF valid THEN {new} ELSE {})]
          /\ paddle' = IF valid THEN [paddle EXCEPT !.mode = "Captured", !.shoot_rotation = 0]
                        ELSE paddle
          /\ fx' = [NoFx EXCEPT !.system = "spawn_ball", !.valid = valid,
                                !.spawned = IF valid THEN 1 ELSE 0,
                                !.despawned = {b.id : b \in gone}]
  /\ UNCHANGED <<now, delta, pending, mouse, ball, lball, enemies, panicked, core, tracker>>

\* ball.rs 55-77: a ball whose place and InsideCore marker disagree gets the
\* marker and loses Damping and Homing, or the reverse; all of it by commands
ball_balls_inside_core ==
  /\ "ball_balls_inside_core" \in pending
  /\ Ran("ball_balls_inside_core")
  /\ world' = [world EXCEPT !.ball_cmds =
                  @ \cup {[id |-> b.id, inside |-> b.zone] : b \in {x \in world.balls : x.zone # x.inside}}]
  /\ fx' = [NoFx EXCEPT !.system = "ball_balls_inside_core"]
  /\ UNCHANGED <<now, delta, mouse, ball, lball, paddle, enemies, panicked, core, tracker>>

\* the frame's commands are applied when its schedule ends
apply_ball_commands ==
  /\ pending = {}
  /\ world.ball_cmds # {}
  /\ world' = [world EXCEPT
       !.ball_cmds = {},
       !.balls = { IF \E c \in world.ball_cmds : c.id = b.id
                   THEN LET c == CHOOSE c \in world.ball_cmds : c.id = b.id
                        IN [b EXCEPT !.inside = c.inside, !.damping = ~c.inside,
                                     !.homing = ~c.inside]
                   ELSE b : b \in @ }]
  /\ fx' = [NoFx EXCEPT !.system = "apply_ball_commands"]
  /\ UNCHANGED <<now, delta, pending, mouse, ball, lball, paddle, enemies, panicked, core,
                 tracker>>

\* movement.rs 48-52: the ball moves along its velocity, into the core's zone
\* or out of it or neither
apply_velocity ==
  /\ "apply_velocity" \in pending
  /\ Ran("apply_velocity")
  /\ \E zone \in [{b.id : b \in world.balls} -> BOOLEAN] :
       world' = [world EXCEPT !.balls = {[b EXCEPT !.zone = zone[b.id]] : b \in @}]
  /\ fx' = [NoFx EXCEPT !.system = "apply_velocity"]
  /\ UNCHANGED <<now, delta, mouse, ball, lball, paddle, enemies, panicked, core, tracker>>

\* ------------------------------------------------------------ initial state
\* the ball as spawn_ball builds it, MovementBundle::new(Vec2::X, BALL_BASE_SPEED)
\* and Ball::new, once released by the paddle
InitBall ==
  [ last_reflection_time |-> 0, speed |-> BALL_BASE_SPEED, direction |-> <<Unit, 0>>,
    reflection_count |-> 0, mark |-> FALSE, cd_move |-> NoCd, paused |-> FALSE,
    parent |-> NoE, local |-> Zero2, applied_at |-> NoCd ]
\* the paddle as spawn_paddle builds it
InitPaddle(a) ==
  [ mode |-> "Reflect", shoot_rotation |-> 0, ammo |-> a, cd_ammo |-> NoCd,
    cd_shake |-> NoCd ]
\* the ball as reflect_ball queries it: Velocity, BaseSpeed and Ball
InitLBall ==
  [ vel |-> <<BALL_BASE_SPEED, 0>>, speed |-> BALL_BASE_SPEED, last_reflection_time |-> 0 ]
\* the core with its Health and its gears, all active; no event is unread and
\* no transition is requested
NewCore(hp, gears) ==
  [ health |-> hp, health0 |-> hp, gears |-> [i \in 1..gears |-> TRUE], events |-> 0,
    next |-> "None", requests |-> 0, reads |-> 0, sent |-> 0 ]
InitCore == NewCore(MaxHealth, MaxHealth)
\* PaddleRotation::new and AccumulatedRotation::default, the paddle_rotation
\* entity's Transform, and one ball outside the core
InitTracker ==
  [ rot |-> 0, prev |-> NoRot, acc |-> 0, cw_start |-> 0, ccw_start |-> 0,
    prev_rot |-> 0, timer |-> [elapsed |-> 0, finished |-> FALSE], inside |-> FALSE,
    inside_cmd |-> FALSE, first |-> NoRot,
    origin |-> 0, hi |-> 0, lo |-> 0, mono |-> TRUE, tainted |-> FALSE, frames |-> 0 ]

\* no system has written the ammo in the running frame, no projectile is in
\* flight, no enemy has touched the core, no request or event is waiting
InitWorld ==
  [ ammo_writers |-> {}, projectiles |-> {},
    dmg |-> [e \in EnemyIds |-> 0], req |-> [e \in EnemyIds |-> 0], contact |-> {},
    staged |-> {}, clear_unread |-> 0,
    balls |-> {}, ball_cmds |-> {}, spawns |-> 0,
    last_shake |-> NoCd, last_shot |-> NoCd,
    tagged |-> [e \in TaggedIds |-> [translation |-> <<0, 0, 0>>, live |-> TRUE]],
    trans |-> InitTransition ]

InitWith(ammos, cores) ==
  /\ now = 0 /\ delta = 0 /\ pending = {} /\ mouse = FALSE
  /\ ball = InitBall
  /\ \E a \in ammos : paddle = InitPaddle(a)
  /\ enemies = EnemyIds
  /\ fx = NoFx
  /\ panicked = FALSE
  /\ lball = InitLBall /\ core \in cores /\ tracker = InitTracker
  /\ world = InitWorld
Init == InitWith({0}, {InitCore})

\* the ball engine: a frame of handle_ball_collisions and the cooldown sweep
Next ==
  \/ BeginFrame(EngineSystems, MaxTime, {}) /\ UNCHANGED <<mouse, ball, paddle, panicked>>
                               /\ UNCHANGED Others
  \/ handle_ball_collisions
  \/ process_cooldown /\ UNCHANGED Others

Spec == Init /\ [][Next]_vars

\* the ball engine with the paddle set to capture, or holding the ball it was
\* given by spawn_ball; the ball may carry the mark of an earlier wall or enemy
\* contact whose cooldown has run out
InitCapture ==
  /\ now = 0 /\ delta = 0 /\ pending = {} /\ mouse = FALSE
  /\ \E m \in {"Capture", "Captured"}, mk \in BOOLEAN :
       /\ paddle = [InitPaddle(0) EXCEPT !.mode = m]
       /\ ball = [InitBall EXCEPT !.mark = mk,
                                  !.paused = (m = "Captured"),
                                  !.parent = IF m = "Captured" THEN PaddleE ELSE NoE]
  /\ enemies = EnemyIds
  /\ fx = NoFx
  /\ panicked = FALSE
  /\ lball = InitLBall /\ core = InitCore /\ tracker = InitTracker
  /\ world = InitWorld
NextCapture ==
  \/ BeginFrame(EngineSystems, MaxCaptureTime, {})
       /\ UNCHANGED <<mouse, ball, paddle, panicked>> /\ UNCHANGED Others
  \/ handle_ball_collisions
  \/ process_cooldown /\ UNCHANGED Others
SpecCapture == InitCapture /\ [][NextCapture]_vars

\* the three sweeps: the ball's primary and targeting sweeps and the
\* projectiles' sweep; the ball carries the mark of an earlier contact
SweepSystems == {"handle_ball_collisions", "gun_handle_collisions"}
InitSweeps ==
  /\ now = 0 /\ delta = 0 /\ pending = {} /\ mouse = FALSE
  /\ paddle = InitPaddle(0)
  /\ ball = [InitBall EXCEPT !.mark = TRUE]
  /\ enemies = EnemyIds
  /\ fx = NoFx
  /\ panicked = FALSE
  /\ lball = InitLBall /\ core = InitCore /\ tracker = InitTracker
  /\ world = InitWorld
NextSweeps ==
  \/ BeginFrame(SweepSystems, MaxSweepTime, {})
       /\ UNCHANGED <<mouse, ball, paddle, panicked>> /\ UNCHANGED Others
  \/ handle_ball_collisions
  \/ gun_handle_collisions
  \/ spawn_projectile
SpecSweeps == InitSweeps /\ [][NextSweeps]_vars

\* the balls: spawned by the reload, moved, and marked by the core's zone
BallSystems == {"ball_balls_inside_core", "apply_velocity"}
NextBalls ==
  \/ /\ world.ball_cmds = {}
     /\ BeginFrame(BallSystems, MaxBallTime, {})
     /\ UNCHANGED <<mouse, ball, paddle, panicked>> /\ UNCHANGED Others
  \/ ball_balls_inside_core
  \/ apply_velocity
  \/ apply_ball_commands
  \/ spawn_ball
SpecBalls == Init /\ [][NextBalls]_vars

\* the game as game/mod.rs assembles it: reflect_ball, the gun and the cooldown
\* sweep.  The paddle starts empty, or one short of full after a run of
\* reflections with no shot.
LegacySystems == {"reflect_ball", "fire_gun", "process_cooldown"}
InitLegacy == InitWith({0, PADDLE_CAPACITY - 1}, {InitCore})
NextLegacy ==
  \/ BeginFrame(LegacySystems, MaxLegacyTime, {}) /\ mouse' \in BOOLEAN
                               /\ UNCHANGED <<ball, paddle, panicked>>
                               /\ UNCHANGED Others
  \/ reflect_ball /\ UNCHANGED <<ball, core, tracker>>
  \/ fire_gun /\ UNCHANGED <<ball, lball, core, tracker>>
  \/ process_cooldown /\ UNCHANGED Others
SpecLegacy == InitLegacy /\ [][NextLegacy]_vars
\* the same game under the scheduler's guarantee: a system that is due in a
\* frame runs in that frame
SpecCooldown ==
  InitLegacy /\ [][NextLegacy]_vars /\ WF_vars(process_cooldown /\ UNCHANGED Others)

\* the core: the enemies reaching it and the damage it takes
CoreSystems == {"handle_collisions", "take_damage"}
InitCores == InitWith({0}, { NewCore(hp, gears) : hp \in 1..MaxHealth, gears \in 1..MaxHealth })
NextCore ==
  \/ /\ world.staged = {}
     /\ BeginFrame(CoreSystems, MaxCoreTime, EnemyIds \ enemies)
     /\ UNCHANGED <<mouse, ball, paddle, panicked>> /\ UNCHANGED Others
  \/ handle_collisions
  \/ take_damage
  \/ despawn_enemy
SpecCore == InitCores /\ [][NextCore]_vars

\* a breach of the core: the enemies reaching it, the damage and the clearing
\* of the paddle's radius
BreachSystems == CoreSystems \cup {"clear_paddle_radius_on_dmg"}
NextBreach ==
  \/ /\ world.staged = {}
     /\ BeginFrame(BreachSystems, MaxBreachTime, EnemyIds \ enemies)
     /\ UNCHANGED <<mouse, ball, paddle, panicked>> /\ UNCHANGED Others
  \/ handle_collisions
  \/ take_damage
  \/ clear_paddle_radius_on_dmg
  \/ despawn_enemy
SpecBreach == Init /\ [][NextBreach]_vars

\* the paddle rotation tracker: a frame samples the pointer
NextRot ==
  \/ rotate_paddle
  \/ accumulate_angle
  \/ reload_balls
  \/ balls_inside_core
SpecRot == Init /\ [][NextRot]_vars

\* ------------------------------------------------- properties of the engine
\* C1: the paddle's ammo stays within [0, capacity] through every paddle
\* reflection and every shot
C1_AmmoWithinCapacity == paddle.ammo >= 0 /\ paddle.ammo <= PADDLE_CAPACITY

\* C2: right after an applied paddle reflection the ball's speed lies between
\* BALL_BASE_SPEED and 5 * BALL_BASE_SPEED
C2_SpeedWithinBounds ==
  /\ (fx.system = "handle_ball_collisions" /\ fx.reflections > 0) =>
       (BALL_BASE_SPEED <= ball.speed /\ ball.speed <= 5 * BALL_BASE_SPEED)
  /\ (fx.system = "reflect_ball" /\ fx.reflections > 0) =>
       (BALL_BASE_SPEED <= lball.speed /\ lball.speed <= 5 * BALL_BASE_SPEED)


\* C3: paddle contacts of one ball less than 0.2 s apart, two hits of one
\* sweep included, give one applied reflection: the reflection count rises by
\* one, once; one ammo bonus is added; the speed is scaled once.  A contact
\* less than 0.2 s after an applied reflection is not applied.
C3_OneReflection ==
  [][ (fx'.system = "handle_ball_collisions" /\ pending' # pending /\ fx'.contacts > 0) =>
        /\ fx'.reflections <= 1
        /\ ball'.reflection_count = ball.reflection_count + fx'.reflections
        /\ (ball.applied_at # NoCd /\ now < ball.applied_at + 200) => fx'.reflections = 0
        /\ (/\ paddle.mode = "Reflect" /\ fx'.walls = << >>
            /\ now >= ball.last_reflection_time + 200) => fx'.reflections = 1
        /\ fx'.reflections = 0 => paddle'.ammo = paddle.ammo
        /\ fx'.reflections = 1 =>
             /\ paddle'.ammo - paddle.ammo \in 0..MaxBonus
             /\ fx'.speed_writes = 1
             /\ ball'.speed = Clamp((ball.speed * 1225) \div 1000,
                                    BALL_BASE_SPEED, 5 * BALL_BASE_SPEED)
    ]_vars
\* two paddle hits in one sweep, the first of them applied
C3_TwoHitsOneSweep ==
  fx.system = "handle_ball_collisions" /\ fx.contacts = 2 /\ fx.reflections = 1

C5_ReloadWhenExceeded ==
  [][ (/\ "reload_balls" \in pending /\ "reload_balls" \notin pending'
       /\ ~tracker.inside /\ tracker.mono) =>
        /\ fx'.spawned <= 1
        /\ (tracker.origin - tracker.acc > MIN_ROT) =>
             /\ fx'.spawned = 1
             /\ tracker'.cw_start = tracker.acc /\ tracker'.ccw_start = tracker.acc
             /\ tracker'.prev_rot = tracker.acc
        /\ (tracker.origin - tracker.acc <= MIN_ROT) => fx'.spawned = 0
    ]_vars
\* C5 as amended: with no ball flagged InsideCore, in a clockwise turn since the
\* tracker's last reset, reload_balls triggers SpawnBall in the first tick in
\* which it sees a turn of at least 355 degrees (355 reached, not only
\* exceeded), and not before; it triggers it once and resets the tracker to
\* that angle, so that the rest of the turn starts from zero
C5_ReloadAtMinRot ==
  [][ (/\ "reload_balls" \in pending /\ "reload_balls" \notin pending'
       /\ ~tracker.inside /\ tracker.mono) =>
        /\ fx'.spawned <= 1
        /\ (tracker.origin - tracker.acc >= MIN_ROT) =>
             /\ fx'.spawned = 1
             /\ tracker'.cw_start = tracker.acc /\ tracker'.ccw_start = tracker.acc
             /\ tracker'.prev_rot = tracker.acc /\ tracker'.origin = tracker.acc
        /\ (tracker.origin - tracker.acc < MIN_ROT) => fx'.spawned = 0
    ]_vars
\* a clockwise turn of 356 degrees has just triggered a reload
C5_ReloadAfter356 ==
  /\ fx.system = "reload_balls" /\ fx.spawned = 1 /\ fx.swept = MIN_ROT + 1
  /\ tracker.cw_start = tracker.acc /\ ~tracker.inside

\* C6: no reload is triggered in a tick unless the accumulated angle is at
\* least 355 degrees below the largest or above the smallest angle reached
\* since the tracker's last reset (cw_start and ccw_start, which never pass
\* them); an angle that stays within 10 degrees of the reset point never
\* triggers one
C6_NoReloadBelowMinRot ==
  [][ ("reload_balls" \in pending /\ "reload_balls" \notin pending') =>
        /\ tracker.cw_start <= tracker.hi /\ tracker.ccw_start >= tracker.lo
        /\ fx'.spawned > 0 =>
             /\ \/ tracker.cw_start - tracker.acc >= MIN_ROT
                \/ tracker.acc - tracker.ccw_start >= MIN_ROT
             /\ \/ tracker.hi - tracker.acc >= MIN_ROT
                \/ tracker.acc - tracker.lo >= MIN_ROT
        /\ (tracker.hi - tracker.origin <= 10 /\ tracker.origin - tracker.lo <= 10) =>
             fx'.spawned = 0
    ]_vars
\* the angle has been 10 degrees to either side of the reset point and
\* reload_balls has run on it
C6_Oscillation ==
  /\ fx.system = "reload_balls" /\ fx.spawned = 0 /\ ~fx.flagged
  /\ tracker.hi - tracker.origin = 10 /\ tracker.origin - tracker.lo = 10

\* C7: in a tick in which a ball is flagged InsideCore, reload_balls triggers no
\* SpawnBall and resets the tracker to the accumulated angle, and no rotation
\* accumulated while a ball was flagged counts toward a later reload
C7_NoAccrualWhileFlagged ==
  fx.system = "reload_balls" =>
    /\ fx.flagged =>
         /\ fx.spawned = 0
         /\ tracker.cw_start = tracker.acc /\ tracker.ccw_start = tracker.acc
         /\ tracker.prev_rot = tracker.acc
    /\ ~fx.tainted

\* C8: the re-aim takes the first enemy, in the sweep's order, whose position
\* has both coordinates within WINDOW_SIZE / 2 - 50 of the origin, and aims the
\* ball at it; an enemy outside the window is never taken, whatever its place
\* in the sweep; with no such enemy the direction is left as it was.
C8_FirstInsideEnemy ==
  fx.aimed =>
    LET inside(h) ==
          /\ h.entity \in enemies \cup fx.despawned
          /\ Abs(h.pos[1]) <= WINDOW_SIZE \div 2 - 50
          /\ Abs(h.pos[2]) <= WINDOW_SIZE \div 2 - 50
        good == { i \in 1..Len(fx.thits) : inside(fx.thits[i]) }
    IN IF good = {} THEN ball.direction = fx.swept_dir /\ fx.target = Zero2
       ELSE LET j == CHOOSE i \in good : \A k \in good : i <= k
            IN /\ fx.target = fx.thits[j].pos
               /\ ball.direction = normalize_or_zero(Sub2(fx.thits[j].pos, fx.origin))
\* an enemy outside the window came first in the sweep and one on the window's
\* edge was taken
C8_OutsideSkipped ==
  /\ fx.aimed /\ Len(fx.thits) = 2
  /\ fx.thits[1].entity \in enemies /\ fx.thits[1].pos[1] > WINDOW_SIZE \div 2 - 50
  /\ fx.target = fx.thits[2].pos
  /\ MaxElementAbs(fx.target) = WINDOW_SIZE \div 2 - 50

\* C9: a wall reflection reverses the normal component of the direction and
\* keeps the tangential one (up to the rounding of the grid)
C9_MirrorReversesNormal ==
  \A i \in 1..Len(fx.walls) :
    LET w == fx.walls[i]
        tangent == <<-w.n[2], w.n[1]>>
    IN /\ Abs(Dot(w.r, w.n) + Dot(w.d, w.n)) <= 3 * Unit
       /\ Abs(Dot(w.r, tangent) - Dot(w.d, tangent)) <= 3 * Unit
\* a ball that met a slanted wall at an angle
C9_SlantedWall ==
  \E i \in 1..Len(fx.walls) :
    /\ fx.walls[i].n = <<-600, 800>>
    /\ Dot(fx.walls[i].d, fx.walls[i].n) < -100 * Unit
    /\ ball.direction = fx.walls[i].r

\* C10: a ball at BALL_BASE_SPEED reflected at the paddle's centre (ratio 0)
\* leaves at 0 degree when the local x is not positive and at 180 degrees when
\* it is, and its speed becomes BALL_BASE_SPEED * 1.225
C10_CentreReflection ==
  \A i \in 1..Len(fx.paddles) :
    LET r == fx.paddles[i]
    IN (r.local[2] = 0 /\ r.speed0 = BALL_BASE_SPEED /\ r.mode = "Reflect") =>
         /\ r.angle = (IF r.local[1] > 0 THEN 180000 ELSE 0)
         /\ r.speed1 = (BALL_BASE_SPEED * 1225) \div 1000
         /\ ball.speed = r.speed1
\* a centre hit from the far side of the paddle
C10_CentreFromOutside ==
  \E i \in 1..Len(fx.paddles) :
    /\ fx.paddles[i].local[2] = 0 /\ fx.paddles[i].local[1] > 0
    /\ fx.paddles[i].speed0 = BALL_BASE_SPEED
    /\ fx.paddles[i].angle = 180000

\* ------------------------------------------ properties of the captured paddle
RanNow(system) == system \in pending /\ system \notin pending'

\* C12: while the paddle mode is Captured, a run of handle_ball_collisions
\* whose sweep touches the paddle leaves the paddle's mode, ammo and shoot
\* rotation and the ball's reflection count as they were and requests no
\* recoil; when the sweep touches nothing but the paddle, the ball's speed,
\* direction and last reflection time are unchanged too, no cooldown is armed
\* and no shake or particle is requested
C12_CapturedIgnoresContact ==
  [][ (RanNow("handle_ball_collisions") /\ paddle.mode = "Captured" /\ fx'.contacts > 0)
        => /\ paddle' = paddle
           /\ ball'.reflection_count = ball.reflection_count
           /\ fx'.reflections = 0 /\ fx'.tweens = 0 /\ fx'.captures = 0
           /\ fx'.ignored = fx'.contacts
           /\ (fx'.walls = << >> /\ fx'.despawned = {} /\ ~fx'.aimed)
                => /\ ball'.speed = ball.speed
                   /\ ball'.direction = ball.direction
                   /\ ball'.last_reflection_time = ball.last_reflection_time
                   /\ ball'.cd_move = ball.cd_move
                   /\ fx'.trauma = 0 /\ fx'.particles = 0 ]_vars
\* a sweep met the paddle twice while it held the ball
C12_ContactWhileCaptured ==
  fx.system = "handle_ball_collisions" /\ fx.ignored = 2 /\ fx.captures = 0
    /\ paddle.mode = "Captured"

C19_NoZeroDirection == ~panicked
\* the targeting sweep left the ball a zero direction, and the next run of
\* handle_ball_collisions met it
C19_ZeroDirectionSkipped ==
  fx.system = "handle_ball_collisions" /\ ball.direction = Zero2 /\ ~fx.aimed
    /\ ~panicked

\* -------------------------------------------------- properties of cooldowns
\* C17: a ball has one movement cooldown at most, and arming it, whether an
\* unexpired entry is present or not and however often in one sweep, leaves
\* the entry with the expiry of the last arming: nothing is added to it
C17_CooldownReplaced ==
  (fx.system = "handle_ball_collisions" /\ fx.armed # << >>)
    => ball.cd_move = fx.armed[Len(fx.armed)]
\* a cooldown was armed while the entry of an earlier tick had not expired
C17_RearmedBeforeExpiry ==
  fx.system = "handle_ball_collisions" /\ fx.armed # << >> /\ fx.prior # NoCd
    /\ fx.prior > now /\ ball.cd_move # fx.prior

Entries == <<ball.cd_move, paddle.cd_ammo, paddle.cd_shake>>
\* C18: an entry whose expiry has passed is removed by the sweep of the tick
\* that sees it, and so eventually; no step removes an entry whose expiry has
\* not passed, and the sweep leaves such an entry as it is
C18_RemovedAtExpiry ==
  /\ [][ \A i \in 1..Len(Entries) :
           /\ (RanNow("process_cooldown") /\ Entries[i] # NoCd /\ Entries[i] <= now)
                => Entries'[i] = NoCd
           /\ (Entries[i] # NoCd /\ Entries'[i] = NoCd) => Entries[i] <= now
           /\ (RanNow("process_cooldown") /\ Entries[i] > now) => Entries'[i] = Entries[i]
       ]_vars
  /\ (paddle.cd_ammo # NoCd /\ paddle.cd_ammo <= now) ~> (paddle.cd_ammo = NoCd)
  /\ (paddle.cd_shake # NoCd /\ paddle.cd_shake <= now) ~> (paddle.cd_shake = NoCd)
\* the sweep removed the gun's expired entry and kept the unexpired one
C18_OneRemovedOneKept ==
  fx.system = "process_cooldown" /\ fx.removed = 1 /\ paddle.cd_ammo = NoCd
    /\ paddle.cd_shake # NoCd /\ paddle.cd_shake > now

\* ------------------------------------------- properties of shared resources
\* C20: in every tick the paddle's ammo is written by one system at most: the
\* ball-collision system and fire_gun never both modify it in the same tick
C20_OneAmmoWriterPerTick == Cardinality(world.ammo_writers) <= 1

Requested(q) == q \in fx.shot_requests
C11_ZoneComponents ==
  \A b \in world.balls :
    /\ b.zone => (~b.damping /\ ~b.homing)
    /\ ~b.zone => (b.damping /\ b.homing)

\* C16: at most one ball exists; after spawn_ball has handled an event every
\* ball that existed before is gone, and one ball, the new one, exists when
\* the event's paddle is valid, none otherwise
C16_OneBall ==
  /\ Cardinality(world.balls) <= 1
  /\ fx.system = "spawn_ball"
       => /\ Cardinality(world.balls) = (IF fx.valid THEN 1 ELSE 0)
          /\ \A b \in world.balls : b.id \notin fx.despawned /\ b.id = world.spawns
\* a second SpawnBall was handled while the first ball existed
C16_BallReplaced ==
  fx.system = "spawn_ball" /\ fx.valid /\ fx.despawned # {} /\ Cardinality(world.balls) = 1

\* ------------------------------------------------------ the paddle's ammo
\* the width of usize.  The target's width is that of a pointer; the model's
\* integers end at 2^31, and the clamp that follows the cast gives the same
\* result for every width whose range lies above the capacity.
USIZE_RANGE == 2^30
\* `x as usize` of an isize: the value modulo the range of usize
as_usize(x) == x % USIZE_RANGE
\* PaddleAmmo::offset: the sum is taken in isize, cast to usize and clamped
offset(ammo, d, capacity) == Clamp(as_usize(ammo + d), 0, capacity)

\* offset applied to every ammo count the paddle can hold
InitAmmo ==
  /\ now = 0 /\ delta = 0 /\ pending = {} /\ mouse = FALSE
  /\ ball = InitBall
  /\ \E a \in 0..PADDLE_CAPACITY : paddle = InitPaddle(a)
  /\ enemies = EnemyIds /\ fx = NoFx /\ panicked = FALSE
  /\ lball = InitLBall /\ core = InitCore /\ tracker = InitTracker
  /\ world = InitWorld
apply_offset ==
  /\ \E d \in (-MaxDelta)..MaxDelta :
       /\ paddle' = [paddle EXCEPT !.ammo = offset(@, d, PADDLE_CAPACITY)]
       /\ fx' = [NoFx EXCEPT !.system = "offset", !.before = paddle.ammo, !.arg = d]
  /\ UNCHANGED <<now, delta, pending, mouse, ball, enemies, panicked, world>>
  /\ UNCHANGED Others
NextAmmo == apply_offset
SpecAmmo == InitAmmo /\ [][NextAmmo]_vars

\* C22: offset leaves ammo at clamp(ammo + delta, 0, capacity); a negative
\* delta larger than the ammo held leaves it at 0
C22_OffsetSaturates ==
  fx.system = "offset" =>
    /\ paddle.ammo = Clamp(fx.before + fx.arg, 0, PADDLE_CAPACITY)
    /\ (fx.before + fx.arg < 0) => paddle.ammo = 0

\* -------------------------------------------------- the reflection angle
\* the angle computed for every ratio of the grid, on either side of the paddle
Ratios == (-MaxRatio)..MaxRatio
Sides == {-1, 1}
InitAngle ==
  /\ now = 0 /\ delta = 0 /\ pending = {} /\ mouse = FALSE
  /\ ball = InitBall /\ paddle = InitPaddle(0)
  /\ enemies = EnemyIds /\ panicked = FALSE
  /\ \E r \in Ratios, s \in Sides : fx = [NoFx EXCEPT !.arg = r, !.before = s]
  /\ lball = InitLBall /\ core = InitCore /\ tracker = InitTracker
  /\ world = InitWorld
apply_angle ==
  /\ fx.system = "none"
  /\ fx' = [fx EXCEPT !.system = "reflection_angle",
                      !.angle = deviation(fx.arg, fx.before)]
  /\ UNCHANGED <<now, delta, pending, mouse, ball, paddle, enemies, panicked, world>>
  /\ UNCHANGED Others
NextAngle == apply_angle
SpecAngle == InitAngle /\ [][NextAngle]_vars

\* C23: the angle is odd in the ratio, its magnitude is at most 20 degrees and
\* does not decrease as the ratio's magnitude grows, it is 0 at ratio 0 and 20
\* degrees from ratio 1 on, and it has no jump: across 0 and across 1 as
\* elsewhere, two neighbouring ratios of the grid give angles at most two steps
\* of the factor's grid apart (the slope 1.5 * sqrt(ratio) is at most 1.5, and
\* the factor is rounded to the grid)
C23_AngleShape ==
  fx.system = "reflection_angle" =>
    LET r == fx.arg
        s == fx.before
        a == fx.angle
    IN /\ Abs(a) <= MAX_REFLECTION_ANGLE * Unit
       /\ deviation(-r, s) = -a
       /\ r = 0 => a = 0
       /\ Abs(r) >= Unit => Abs(a) = MAX_REFLECTION_ANGLE * Unit
       /\ r + 1 \in Ratios =>
            /\ Abs(deviation(r + 1, s) - a) <= 2 * MAX_REFLECTION_ANGLE
            /\ r >= 0 => Abs(deviation(r + 1, s)) >= Abs(a)
            /\ r < 0 => Abs(deviation(r + 1, s)) <= Abs(a)
\* the angle was computed for a ratio below -1 on the negative side: it is
\* +20 degrees
C23_Saturated ==
  /\ fx.system = "reflection_angle" /\ fx.arg < -Unit /\ fx.before = -1
  /\ fx.angle = MAX_REFLECTION_ANGLE * Unit

\* ------------------------------------------------ properties of wall contacts
\* C24: every applied wall reflection multiplies the ball's speed by exactly
\* 0.9, with no clamp, so the speed after it is never above the speed before
C24_WallTimesPointNine ==
  \A i \in DOMAIN fx.walls :
    /\ fx.walls[i].s1 = MulMilli(fx.walls[i].s0, 900)
    /\ fx.walls[i].s1 <= fx.walls[i].s0

\* C25: a run of handle_ball_collisions whose sweep touches a wall while the
\* time is less than last_reflection_time + 0.1 s applies no wall reflection and
\* leaves the speed and last_reflection_time as they were, the direction as
\* well unless the targeting step ran, and the movement cooldown and the mark
\* as well unless an enemy was hit or the targeting step ran; every applied
\* reflection leaves last_reflection_time at the expiry of the cooldown it
\* armed, later than now, so every applied wall reflection comes 0.1 s or more
\* after the last_reflection_time it found, and one run applies at most one
C25_WallDebounce ==
  [][(RanNow("handle_ball_collisions") /\ ~panicked') =>
       /\ \A i \in DOMAIN fx'.walls : now >= fx'.walls[i].lrt0 + 100
       /\ fx'.reflections + Len(fx'.walls) <= 1
       /\ (fx'.reflections + Len(fx'.walls) = 1) =>
            /\ ball'.last_reflection_time > now
            /\ \E j \in DOMAIN fx'.armed : fx'.armed[j] = ball'.last_reflection_time
       /\ (fx'.wall_contacts > 0 /\ now < ball.last_reflection_time + 100) =>
            /\ fx'.walls = << >>
            /\ ball'.speed = ball.speed
            /\ ball'.last_reflection_time = ball.last_reflection_time
            /\ ~fx'.aimed => ball'.direction = ball.direction
            /\ fx'.despawned = {} => ball'.cd_move = ball.cd_move
            /\ (fx'.despawned = {} /\ ~fx'.aimed) => ball'.mark = ball.mark
  ]_vars
\* a wall contact was ignored within 0.1 s of the last_reflection_time that an
\* earlier reflection had set, with the movement cooldown of that reflection
\* still running
C25_WallIgnoredAfterReflection ==
  /\ fx.system = "handle_ball_collisions" /\ fx.wall_contacts > 0 /\ fx.walls = << >>
  /\ fx.despawned = {} /\ ~fx.aimed
  /\ ball.last_reflection_time > 0 /\ now < ball.last_reflection_time + 100
  /\ now > ball.last_reflection_time - 85

\* ------------------------------------------------- properties of the gears
\* the gears whose flag differs between the two states of a step
ChangedGears == { i \in DOMAIN core.gears : core'.gears[i] # core.gears[i] }
HandledDamage == RanNow("take_damage") /\ core.events > 0
\* C26 as stated: each handled damage changes exactly one gear, the first
\* active one in the list's order, from active to disabled; no step changes a
\* gear from disabled to active
C26_OneGearPerDamage ==
  [][/\ DOMAIN core'.gears = DOMAIN core.gears
     /\ \A i \in DOMAIN core.gears : core'.gears[i] => core.gears[i]
     /\ HandledDamage =>
          \E g \in DOMAIN core.gears :
            /\ ChangedGears = {g}
            /\ core.gears[g] /\ \A k \in 1..(g - 1) : ~core.gears[k]
  ]_vars
\* C26 as amended: a handled damage that finds an active gear changes exactly
\* one gear, the first active one in the list's order, from active to disabled,
\* and costs one health; one that finds no active gear changes no gear and
\* costs no health; no other step changes a gear, and no step changes a gear
\* from disabled to active
C26_FirstActiveGearIfAny ==
  [][/\ DOMAIN core'.gears = DOMAIN core.gears
     /\ \A i \in DOMAIN core.gears : core'.gears[i] => core.gears[i]
     /\ ~HandledDamage => ChangedGears = {}
     /\ HandledDamage =>
          IF \E i \in DOMAIN core.gears : core.gears[i]
          THEN /\ \E g \in DOMAIN core.gears :
                    /\ ChangedGears = {g}
                    /\ core.gears[g] /\ \A k \in 1..(g - 1) : ~core.gears[k]
               /\ core'.health = core.health - 1
          ELSE ChangedGears = {} /\ core'.health = core.health
  ]_vars
\* the second handled damage disabled the second gear and left the third
C26_SecondGearDisabled ==
  /\ fx.system = "take_damage" /\ fx.tweens = 1 /\ core.reads = 2
  /\ core.gears = <<FALSE, FALSE, TRUE>>

\* the gears of the core that are disabled
DisabledGears == { i \in DOMAIN core.gears : ~core.gears[i] }
\* C34: for a core with at least as much health as gears, the health lost
\* since the start equals the number of disabled gears in every state; health
\* changes only in a run of take_damage that read damage and found an active
\* gear, and then by one, however many events were read; a run that reads
\* damage with no active gear left adds the shake and changes neither health
\* nor the game-over request nor any gear
C34_HealthCountsGears ==
  /\ [](Len(core.gears) <= core.health0 =>
          core.health0 - core.health = Cardinality(DisabledGears))
  /\ [][/\ core'.health # core.health =>
             /\ HandledDamage
             /\ \E i \in DOMAIN core.gears : core.gears[i]
             /\ core'.health = core.health - 1
        /\ (HandledDamage /\ \A i \in DOMAIN core.gears : ~core.gears[i]) =>
             /\ core'.health = core.health
             /\ core'.next = core.next /\ core'.requests = core.requests
             /\ core'.gears = core.gears
             /\ fx'.trauma = 700 /\ fx'.tweens = 0
     ]_vars
\* damage was read with every gear disabled, after a run that had read more
\* than one event
C34_DamageWithNoGear ==
  /\ fx.system = "take_damage" /\ fx.trauma = 700 /\ fx.tweens = 0
  /\ DisabledGears = DOMAIN core.gears
  /\ core.health = core.health0 - Len(core.gears)
  /\ core.sent > core.reads

\* ---------------------------------------------- properties of the targeting
\* C27: the targeting step of handle_ball_collisions runs only for a ball that
\* carried the mark when the tick's run started; whenever it runs the ball is
\* left without the mark, an enemy selected or not; a run over a ball without
\* the mark writes the direction only by the reflections it applies
C27_TargetingNeedsMark ==
  [][(RanNow("handle_ball_collisions") /\ ~panicked') =>
       /\ fx'.aimed => (ball.mark /\ ~ball'.mark)
       /\ ~ball.mark =>
            /\ ~fx'.aimed
            /\ fx'.dir_writes = 0 => ball'.direction = ball.direction
  ]_vars
\* the targeting step ran in a sweep that had armed the mark again by a wall
\* contact, selected no enemy, and left the ball unmarked
C27_RanWithoutTarget ==
  /\ fx.system = "handle_ball_collisions" /\ fx.aimed /\ fx.target = Zero2
  /\ first_target(fx.thits, 1) = 0 /\ fx.walls # << >> /\ ~ball.mark

\* ------------------------------------------------- properties of the capture
\* a run of handle_ball_collisions that finds the paddle in Capture mode and
\* the ball outside the paddle's debounce window, and whose sweep touches the
\* paddle and applies no wall reflection
CaptureContact ==
  /\ RanNow("handle_ball_collisions") /\ ~panicked'
  /\ paddle.mode = "Capture" /\ fx'.contacts > 0 /\ fx'.walls = << >>
  /\ ~debounced(now, ball.last_reflection_time, 200)
\* what the capture leaves apart from the ball's local translation: the mode
\* Captured with the contact's angle as shoot rotation, the ball parented to
\* the paddle and paused, and speed, reflection count, last reflection time
\* and ammo as they were, the direction too unless the targeting step ran
Caught ==
  /\ fx'.captures = 1 /\ Len(fx'.caught) = 1
  /\ paddle'.mode = "Captured"
  /\ paddle'.shoot_rotation = reflection_angle(fx'.caught[1].local)
  /\ ball'.parent = PaddleE /\ ball'.paused
  /\ ball'.speed = ball.speed
  /\ ball'.reflection_count = ball.reflection_count
  /\ ball'.last_reflection_time = ball.last_reflection_time
  /\ paddle'.ammo = paddle.ammo
  /\ fx'.reflections = 0
  /\ ~fx'.aimed => ball'.direction = ball.direction
\* C28 as stated: a contact with the paddle in Capture mode outside the 0.2 s
\* window sets the mode to Captured with the contact's angle, parents the ball
\* to the paddle with a zero local offset and pauses it, and leaves speed,
\* direction, reflection count and ammo unchanged
C28_CapturedAtZeroOffset ==
  [][CaptureContact => (Caught /\ ball'.local = Zero2)]_vars
\* C28 as amended: the same, with the ball's local translation set to its
\* world position taken into the paddle's frame, which leaves the ball where
\* it was
C28_CapturedInPlace ==
  [][CaptureContact =>
       /\ Caught
       /\ ball'.local = inverse_transform_point(fx'.caught[1].pose, fx'.caught[1].bpos)
       /\ transform_point(fx'.caught[1].pose, ball'.local) = fx'.caught[1].bpos
  ]_vars
\* the ball was caught away from the paddle's origin, on the turned paddle
C28_CaughtOffCentre ==
  /\ fx.system = "handle_ball_collisions" /\ fx.captures = 1 /\ fx.walls = << >>
  /\ paddle.mode = "Captured" /\ ball.parent = PaddleE /\ ball.paused
  /\ fx.caught[1].pose # Pose0 /\ fx.caught[1].bpos # Zero2
  /\ ball.local # Zero2 /\ paddle.shoot_rotation # 0

\* ---------------------------------------------- properties of the idle reset
\* the tracker as PaddleRotation::reset(rotation) leaves it
IsReset(tr, rotation) ==
  /\ tr.cw_start = rotation /\ tr.ccw_start = rotation /\ tr.prev_rot = rotation
  /\ tr.timer = [elapsed |-> 0, finished |-> FALSE]
\* C29: in a run of reload_balls with no ball inside the core and no reload
\* due, a rate below 1 rad/s adds the tick's duration to the idle timer, and
\* when the total reaches 50 ms the tracker is reset to the accumulated angle
\* with the timer restarted and SpawnBall not triggered; a rate of 1 rad/s or
\* more restarts the timer and discards nothing.  SpawnBall is triggered by
\* a due reload only, and the timer never rests at its end.
C29_IdleReset ==
  /\ [][RanNow("reload_balls") =>
         LET rotation == tracker.acc
             fire == reload_due(rotation, tracker.cw_start, tracker.ccw_start)
             total == tracker.timer.elapsed + delta
         IN /\ fx'.spawned = (IF ~tracker.inside /\ fire THEN 1 ELSE 0)
            /\ fx'.idle => IsReset(tracker', rotation)
            /\ (~tracker.inside /\ ~fire) =>
                 /\ tracker'.prev_rot = rotation
                 /\ IF slow(tracker.prev_rot, rotation, delta)
                    THEN IF total >= TIMER_MS
                         THEN fx'.idle /\ fx'.spawned = 0
                         ELSE /\ ~fx'.idle
                              /\ tracker'.timer = [elapsed |-> total, finished |-> FALSE]
                              /\ tracker'.cw_start >= tracker.cw_start
                              /\ tracker'.ccw_start <= tracker.ccw_start
                    ELSE /\ ~fx'.idle
                         /\ tracker'.timer = [elapsed |-> 0, finished |-> FALSE]
            /\ (tracker.inside \/ fire) =>
                 /\ tracker'.cw_start = rotation /\ tracker'.ccw_start = rotation
                 /\ tracker'.prev_rot = rotation
                 /\ tracker'.timer.elapsed \in {0, delta}
     ]_vars
  /\ [](tracker.timer.elapsed < TIMER_MS /\ ~tracker.timer.finished)
\* two slow ticks of 25 ms in a row reset a tracker that had wound part of a
\* turn, and no SpawnBall was triggered
C29_PartialWindingDiscarded ==
  /\ fx.system = "reload_balls" /\ fx.idle /\ fx.spawned = 0 /\ delta = 25
  /\ tracker.acc # 0 /\ IsReset(tracker, tracker.acc)

\* --------------------------------------- properties of the accumulated angle
\* C30: the first rotation accumulate_angle sees adds nothing; every later run
\* adds the signed shortest angle from the rotation it saw last to the current
\* one, a value of less than half a turn in magnitude that differs from the
\* difference of the two bearings by whole turns; no other system writes the
\* sum.  The sum is therefore the net rotation since the first one up to whole
\* turns, and it is not wrapped.
C30_UnwrappedSum ==
  /\ [][IF RanNow("accumulate_angle")
        THEN IF tracker.prev = NoRot
             THEN /\ tracker'.acc = tracker.acc
                  /\ tracker'.prev = tracker.rot /\ tracker'.first = tracker.rot
             ELSE LET d == tracker'.acc - tracker.acc
                  IN /\ d >= -180 /\ d <= 180
                     /\ (d - (tracker.rot - tracker.prev)) % 360 = 0
                     /\ tracker'.prev = tracker.rot
        ELSE tracker'.acc = tracker.acc /\ tracker'.prev = tracker.prev
     ]_vars
  /\ [](IF tracker.prev = NoRot THEN tracker.acc = 0
        ELSE (tracker.acc - (tracker.prev - tracker.first)) % 360 = 0)
\* a full clockwise revolution in steps of less than half a turn, back to the
\* first bearing: the sum is -360 degrees
C30_FullRevolution ==
  /\ fx.system = "accumulate_angle" /\ tracker.first # NoRot
  /\ tracker.prev = tracker.first /\ tracker.acc = -360

\* ------------------------------------------------- the orders of one tick
\* movement.rs 20-35: rotate_paddle, accumulate_angle and reload_balls are added
\* to Update together with no ordering between them, so the scheduler may run
\* them in any order
TickSystems == {"rotate_paddle", "accumulate_angle", "reload_balls"}
Orders ==
  { o \in [1..Cardinality(TickSystems) -> TickSystems] :
      \A i, j \in DOMAIN o : o[i] = o[j] => i = j }
\* movement.rs 69-77, on the components of the tracked entity: the Transform is
\* turned to the cursor's bearing
rotate_paddle_on(tr, cursor) == [tr EXCEPT !.rot = cursor]
\* one system of the tick run on the state st = [tr, spawned]
run_system(system, st, cursor, dt) ==
  IF system = "rotate_paddle" THEN [st EXCEPT !.tr = rotate_paddle_on(@, cursor)]
  ELSE IF system = "accumulate_angle" THEN [st EXCEPT !.tr = accumulate_angle_on(@)]
  ELSE LET r == reload_balls_on(st.tr, dt)
       IN [tr |-> r.tr, spawned |-> st.spawned + r.f.spawned]
\* the systems of the tick run in the order o from the i-th on
RECURSIVE run_order(_, _, _, _, _)
run_order(o, i, st, cursor, dt) ==
  IF i > Len(o) THEN st
  ELSE run_order(o, i + 1, run_system(o[i], st, cursor, dt), cursor, dt)
\* the components and requests a tick leaves behind: the entity's Transform,
\* AccumulatedRotation and PaddleRotation, and the SpawnBall triggers
Outcome(st) ==
  [ rot |-> st.tr.rot, prev |-> st.tr.prev, rotation |-> st.tr.acc,
    cw_start |-> st.tr.cw_start, ccw_start |-> st.tr.ccw_start,
    prev_rot |-> st.tr.prev_rot, timer |-> st.tr.timer, spawned |-> st.spawned ]
\* one tick: the commands of the last one have been applied, the three systems
\* run in one of their orders on the cursor's bearing, and balls_inside_core
\* queues the flag's change for the end of the tick; the outcomes of all the
\* orders on the same state, bearing and duration are kept beside it
tick_in_order ==
  /\ pending = {}
  /\ tracker.frames < MaxTickFrames
  /\ \E dt \in RotDts, cursor \in Bearings, inside_core \in BOOLEAN :
       LET st0 == [tr |-> [tracker EXCEPT !.inside = tracker.inside_cmd, !.frames = @ + 1],
                   spawned |-> 0]
       IN \E ends \in { { run_order(p, 1, st0, cursor, dt) : p \in Orders } } :
          \E st \in ends :
            /\ delta' = dt
            /\ tracker' = [st.tr EXCEPT !.inside_cmd = inside_core]
            /\ fx' = [NoFx EXCEPT
                        !.system = "tick", !.spawned = st.spawned,
                        !.outcomes = { Outcome(e) : e \in ends }]
  /\ UNCHANGED <<now, pending, mouse, ball, lball, paddle, enemies, panicked, core, world>>
NextTick == tick_in_order
SpecTick == Init /\ [][NextTick]_vars

\* C21: a tick is a function of the state it starts from, its input and its
\* duration: whatever order the scheduler runs the unordered systems in, the
\* tick ends in the same state
C21_OneOutcomePerTick ==
  fx.system = "tick" => Cardinality(fx.outcomes) = 1

\* ------------------------------------------------------------- the gun
\* gun.rs 13-24: fire_gun and the sweeps of its two cooldowns; the fire button
\* is or is not pressed in a frame.  The paddle starts empty or with two shots.
GunSystems == {"fire_gun", "process_cooldown"}
InitGun == InitWith({0, 2}, {InitCore})
NextGun ==
  \/ BeginFrame(GunSystems, MaxGunTime, {}) /\ mouse' \in BOOLEAN
                               /\ UNCHANGED <<ball, paddle, panicked>>
                               /\ UNCHANGED Others
  \/ fire_gun /\ UNCHANGED <<ball, lball, core, tracker>>
  \/ process_cooldown /\ UNCHANGED Others
SpecGun == InitGun /\ [][NextGun]_vars

\* C31: a run of fire_gun on a press with no ammo emits the no-ammo shake
\* (trauma 0.4) if and only if the paddle carries neither cooldown (the shot's
\* cooldown hides the paddle from fire_gun); the shake arms the NoAmmoShake
\* cooldown for 1 s and comes 1 s or more after the one before it; the press
\* changes neither the ammo nor the projectiles
C31_NoAmmoShakeDebounced ==
  [][(RanNow("fire_gun") /\ mouse /\ paddle.ammo = 0) =>
       /\ (fx'.trauma = 400) <=> (paddle.cd_shake = NoCd /\ paddle.cd_ammo = NoCd)
       /\ fx'.trauma \in {0, 400}
       /\ fx'.trauma = 400 =>
            /\ paddle'.cd_shake = now + 1000
            /\ world'.last_shake = now
            /\ world.last_shake # NoCd => now >= world.last_shake + 1000
       /\ fx'.trauma = 0 => paddle'.cd_shake = paddle.cd_shake
       /\ paddle'.ammo = 0 /\ paddle'.cd_ammo = paddle.cd_ammo
       /\ fx'.projectiles = 0 /\ world'.projectiles = world.projectiles
  ]_vars
\* a second no-ammo shake, after the cooldown of the first was removed
C31_SecondShake ==
  /\ fx.system = "fire_gun" /\ fx.trauma = 400 /\ fx.since # NoCd
  /\ paddle.ammo = 0 /\ paddle.cd_shake = now + 1000

\* C33: a run of fire_gun on a press with ammo and no shot cooldown on the
\* paddle triggers exactly one SpawnProjectile, takes exactly one ammo and arms
\* the shot cooldown for 0.14 s; on a press while that cooldown is on the
\* paddle it triggers nothing, changes no ammo and emits no shake; two shots are
\* therefore 0.14 s apart or more
C33_OneShotPerCooldown ==
  [][(RanNow("fire_gun") /\ mouse) =>
       /\ (paddle.ammo > 0 /\ paddle.cd_ammo = NoCd) =>
            /\ fx'.projectiles = 1
            /\ paddle'.ammo = paddle.ammo - 1
            /\ paddle'.cd_ammo = now + 140
            /\ world'.last_shot = now
            /\ world.last_shot # NoCd => now >= world.last_shot + 140
       /\ paddle.cd_ammo # NoCd =>
            /\ fx'.projectiles = 0 /\ fx'.trauma = 0
            /\ paddle' = paddle /\ world' = world
       /\ fx'.projectiles = 1 => (paddle.ammo > 0 /\ paddle.cd_ammo = NoCd)
       /\ fx'.projectiles <= 1
  ]_vars
\* the second shot, fired after the cooldown of the first was removed
C33_SecondShot ==
  /\ fx.system = "fire_gun" /\ fx.projectiles = 1 /\ fx.since # NoCd
  /\ paddle.ammo = 0 /\ paddle.cd_ammo = now + 140

\* ------------------------------------------ properties of enemy contacts
\* C32: a run of handle_ball_collisions destroys every enemy its sweep
\* returns, debounced or not, and no other; when it destroys one it requests
\* the shake and the particles of each, leaves the ball with the movement
\* cooldown the last contact armed, and with the mark unless the targeting step
\* of the same run removed it; when its sweep applies no reflection and no
\* capture, the speed, the reflection count, last_reflection_time and the paddle
\* are as they were, and the direction too unless the targeting step ran
C32_EnemyContact ==
  [][(RanNow("handle_ball_collisions") /\ ~panicked') =>
       /\ fx'.despawned = fx'.met
       /\ enemies' = enemies \ fx'.met
       /\ fx'.met # {} =>
            /\ fx'.particles >= Cardinality(fx'.met)
            /\ fx'.trauma >= 150 * Cardinality(fx'.met)
            /\ ball'.cd_move > now
            /\ ball'.cd_move = fx'.armed[Len(fx'.armed)]
            /\ ball'.mark = ~fx'.aimed
            /\ (fx'.reflections = 0 /\ fx'.walls = << >> /\ fx'.captures = 0) =>
                 /\ ball'.speed = ball.speed
                 /\ ball'.reflection_count = ball.reflection_count
                 /\ ball'.last_reflection_time = ball.last_reflection_time
                 /\ paddle' = paddle
                 /\ ~fx'.aimed => ball'.direction = ball.direction
  ]_vars
\* one sweep returned both enemies: both are gone, the ball is marked and its
\* movement cooldown is running
C32_TwoEnemiesOneSweep ==
  /\ fx.system = "handle_ball_collisions" /\ Cardinality(fx.despawned) = 2
  /\ enemies = {} /\ ball.mark /\ ball.cd_move > now

\* ------------------------------------------ leaving the play field (despawn.rs)
\* despawn.rs 16-18: t.translation().truncate().max_element() > treshold, the
\* larger of x and y against GAME_SIZE + 150
out_of_bounds(t) == Max(t[1], t[2]) > GAME_SIZE + 150

\* despawn.rs 12-22: every tagged entity beyond the threshold is despawned when
\* the commands of the run are applied
despawn_out_of_bounds ==
  /\ "despawn_out_of_bounds" \in pending
  /\ Ran("despawn_out_of_bounds")
  /\ LET gone == { e \in TaggedIds : world.tagged[e].live
                                      /\ out_of_bounds(world.tagged[e].translation) }
     IN /\ world' = [world EXCEPT !.tagged =
                       [e \in TaggedIds |-> IF e \in gone THEN [@[e] EXCEPT !.live = FALSE]
                                            ELSE @[e]]]
        /\ fx' = [NoFx EXCEPT !.system = "despawn_out_of_bounds", !.despawned = gone]
  /\ UNCHANGED <<now, delta, mouse, ball, lball, paddle, enemies, panicked, core, tracker>>

\* the transform propagation of PostUpdate: the GlobalTransform of every tagged
\* entity that exists takes the place its movement has brought it to
propagate_transforms ==
  /\ pending = {"propagate_transforms"}
  /\ Ran("propagate_transforms")
  /\ \E to \in [TaggedIds -> Translations] :
       world' = [world EXCEPT !.tagged =
                   [e \in TaggedIds |-> IF @[e].live THEN [@[e] EXCEPT !.translation = to[e]]
                                        ELSE @[e]]]
  /\ fx' = [NoFx EXCEPT !.system = "propagate_transforms"]
  /\ UNCHANGED <<now, delta, mouse, ball, lball, paddle, enemies, panicked, core, tracker>>

BoundsSystems == {"despawn_out_of_bounds", "propagate_transforms"}
NextBounds ==
  \/ BeginFrame(BoundsSystems, MaxBoundsTime, {}) /\ UNCHANGED <<mouse, ball, paddle, panicked>>
                                                  /\ UNCHANGED Others
  \/ despawn_out_of_bounds
  \/ propagate_transforms
SpecBounds == Init /\ [][NextBounds]_vars

\* C37 as stated: a run of despawn_out_of_bounds despawns exactly the tagged
\* entities whose x or y coordinate exceeds GAME_SIZE + 150 in magnitude, on
\* the positive or on the negative side, and no entity within the threshold
C37_DespawnedBeyondThreshold ==
  [][RanNow("despawn_out_of_bounds") =>
       \A e \in TaggedIds : world.tagged[e].live =>
         (~world'.tagged[e].live <=>
            \/ Abs(world.tagged[e].translation[1]) > GAME_SIZE + 150
            \/ Abs(world.tagged[e].translation[2]) > GAME_SIZE + 150)
  ]_vars

\* ---------------------------------------------- the damped ball and its mark
\* movement.rs 59: 1 - damping * dt, per mille
damping_mult(dt) == 1000 - Quot(DAMPING * dt, 1000)
\* movement.rs 54-65: the speed of a ball that carries Damping (one outside
\* the core's zone) is scaled by the frame's factor, and with it the velocity
\* derived from it
apply_damping ==
  /\ "apply_damping" \in pending
  /\ Ran("apply_damping")
  /\ \E damped \in BOOLEAN :
       ball' = IF damped THEN [ball EXCEPT !.speed = MulMilli(@, damping_mult(delta))]
               ELSE ball
  /\ fx' = [NoFx EXCEPT !.system = "apply_damping"]
  /\ UNCHANGED <<now, delta, mouse, lball, paddle, enemies, panicked, core, tracker, world>>

\* the ball engine with the damping step; the ball is fresh, or one the
\* damping has slowed to the last step of the grid
AimSystems == EngineSystems \cup {"apply_damping"}
InitAim ==
  /\ now = 0 /\ delta = 0 /\ pending = {} /\ mouse = FALSE
  /\ \E s \in {BALL_BASE_SPEED, 1} : ball = [InitBall EXCEPT !.speed = s]
  /\ paddle = InitPaddle(0)
  /\ enemies = EnemyIds
  /\ fx = NoFx
  /\ panicked = FALSE
  /\ lball = InitLBall /\ core = InitCore /\ tracker = InitTracker
  /\ world = InitWorld
\* a further frame for a ball at rest that carries no cooldown: no system
\* reads the time any more (the sweep is skipped, no cooldown is left to
\* expire), and the clock is left where it is
RestFrame ==
  /\ pending = {} /\ ~panicked
  /\ stationary(velocity(ball)) /\ ball.cd_move = NoCd
  /\ paddle.cd_ammo = NoCd /\ paddle.cd_shake = NoCd
  /\ delta' \in Dts
  /\ pending' = AimSystems
  /\ fx' = NoFx
  /\ UNCHANGED <<now, mouse, ball, paddle, enemies, panicked, world>> /\ UNCHANGED Others
NextAim ==
  \/ BeginFrame(AimSystems, MaxAimTime, {}) /\ UNCHANGED <<mouse, ball, paddle, panicked>>
                                            /\ UNCHANGED Others
  \/ RestFrame
  \/ handle_ball_collisions
  \/ process_cooldown /\ UNCHANGED Others
  \/ apply_damping
\* the step in which a system that is due runs
Runs(system) == system \in pending /\ ~panicked /\ pending' = pending \ {system}
\* the frames of a ball at rest follow one another, and the scheduler runs
\* every system of Update in every frame
SpecAim ==
  /\ InitAim /\ [][NextAim]_vars
  /\ WF_vars(RestFrame)
  /\ \A system \in AimSystems : WF_pending(Runs(system))

\* C35 as stated: a ball that carries the mark and no movement cooldown when
\* handle_ball_collisions is due eventually has the mark cleared, whatever the
\* ball does next
C35_MarkEventuallyCleared ==
  (ball.mark /\ ball.cd_move = NoCd /\ "handle_ball_collisions" \in pending) ~> ~ball.mark

\* ------------------------------------------ screen transitions (screen/mod.rs)
\* the run time at which the tween of circle i (the first is 1) has factor 1
full(i) == (i - 1) * DELAY_MS + TWEEN_MS
\* TweenFactor::factor() >= 1.
finished(elapsed, i) == elapsed # NoCd /\ elapsed >= full(i)
\* the circles that carry either tween (mod.rs 248-254); the final circle is
\* the last of the list (mod.rs 113-115)
circle_q(tr) == {i \in 1..NCircles : tr.circle[i] # NoCd}
                  \cup (IF tr.final # NoCd THEN {NCircles} ELSE {})

\* NextTransitionedState::set (mod.rs 83-85): the write marks the resource
\* as changed
set(tr, next) == [tr EXCEPT !.next_transitioned = next, !.changed = TRUE]

\* the commands of a frame, applied in the order they were queued
RECURSIVE apply_cmds(_, _, _)
apply_cmds(tr, cmds, k) ==
  IF k > Len(cmds) THEN tr
  ELSE LET c == cmds[k]
           tr1 == IF c.comp = "circle"
                  THEN [tr EXCEPT !.circle[c.i] = IF c.op = "insert" THEN 0 ELSE NoCd]
                  ELSE [tr EXCEPT !.final = IF c.op = "insert" THEN 0 ELSE NoCd]
       IN apply_cmds(tr1, cmds, k + 1)

\* the callers of set: handle_title_action on the Title screen (title.rs
\* 41-56), take_damage in the game (core.rs 120-122); a run requests a screen
\* or none
request_screen ==
  /\ "request_screen" \in pending
  /\ Ran("request_screen")
  /\ \/ /\ fx' = [NoFx EXCEPT !.system = "request_screen"]
        /\ UNCHANGED world
     \/ /\ world.trans.requests < MaxRequests
        /\ \E s \in (IF world.trans.screen = "Title" THEN {"Game", "Tutorial"}
                     ELSE IF world.trans.screen = "Game" THEN {"GameOver"} ELSE {}) :
             /\ world' = [world EXCEPT !.trans = [set(@, s) EXCEPT !.requests = @ + 1]]
             /\ fx' = [NoFx EXCEPT !.system = "request_screen", !.requested = s]
  /\ UNCHANGED <<now, delta, mouse, ball, lball, paddle, enemies, panicked, core, tracker>>

\* mod.rs 38-43 and 245-267: the run condition reads the change flag; the
\* system starts the circles when none carries a tween and a screen is
\* requested
start_transition_anim ==
  /\ "start_transition_anim" \in pending
  /\ Ran("start_transition_anim")
  /\ LET tr == world.trans
         starts == tr.changed /\ circle_q(tr) = {} /\ tr.next_transitioned # "None"
     IN /\ world' = [world EXCEPT !.trans =
                       [tr EXCEPT !.changed = FALSE,
                                  !.cmds = IF starts
                                           THEN @ \o [i \in 1..NCircles |->
                                                  [op |-> "insert", comp |-> "circle", i |-> i]]
                                           ELSE @]]
        /\ fx' = [NoFx EXCEPT !.system = "start_transition_anim",
                              !.tweens = IF starts THEN NCircles ELSE 0]
  /\ UNCHANGED <<now, delta, mouse, ball, lball, paddle, enemies, panicked, core, tracker>>

\* mod.rs 269-315: every circle whose tween has factor 1 sets NextState to the
\* requested screen and loses the tween; the final circle starts its fade
transition_out ==
  /\ "transition_out" \in pending
  /\ Ran("transition_out")
  /\ LET tr == world.trans
         done == {i \in 1..NCircles : finished(tr.circle[i], i)}
         removes == [k \in 1..Cardinality(done) |->
                       [op |-> "remove", comp |-> "circle",
                        i |-> CHOOSE i \in done : Cardinality({j \in done : j < i}) = k - 1]]
         fade == IF NCircles \in done
                 THEN << [op |-> "insert", comp |-> "final", i |-> NCircles] >> ELSE << >>
     IN /\ world' = [world EXCEPT !.trans =
                       [tr EXCEPT !.next_state = IF done # {} /\ tr.next_transitioned # "None"
                                                 THEN tr.next_transitioned ELSE @,
                                  !.cmds = @ \o removes \o fade]]
        /\ fx' = [NoFx EXCEPT !.system = "transition_out", !.removed = Cardinality(done)]
  /\ UNCHANGED <<now, delta, mouse, ball, lball, paddle, enemies, panicked, core, tracker>>

\* mod.rs 317-338: the fade of the final circle ends
transition_in ==
  /\ "transition_in" \in pending
  /\ Ran("transition_in")
  /\ LET tr == world.trans
         over == tr.final # NoCd /\ tr.final >= FINAL_MS
     IN /\ world' = [world EXCEPT !.trans.cmds =
                       IF over THEN @ \o << [op |-> "remove", comp |-> "final", i |-> NCircles] >>
                       ELSE @]
        /\ fx' = [NoFx EXCEPT !.system = "transition_in", !.removed = IF over THEN 1 ELSE 0]
  /\ UNCHANGED <<now, delta, mouse, ball, lball, paddle, enemies, panicked, core, tracker>>

\* tween_factor::<TransitionCircle>: the tweens run on by the frame's time
tween_factor_circle ==
  /\ "tween_factor_circle" \in pending
  /\ Ran("tween_factor_circle")
  /\ world' = [world EXCEPT !.trans.circle =
                 [i \in 1..NCircles |-> IF @[i] = NoCd THEN NoCd ELSE Min(@[i] + delta, full(i))]]
  /\ fx' = [NoFx EXCEPT !.system = "tween_factor_circle"]
  /\ UNCHANGED <<now, delta, mouse, ball, lball, paddle, enemies, panicked, core, tracker>>

\* tween_factor::<FinalTransitionCircle>
tween_factor_final ==
  /\ "tween_factor_final" \in pending
  /\ Ran("tween_factor_final")
  /\ world' = [world EXCEPT !.trans.final =
                 IF @ = NoCd THEN NoCd ELSE Min(@ + delta, FINAL_MS)]
  /\ fx' = [NoFx EXCEPT !.system = "tween_factor_final"]
  /\ UNCHANGED <<now, delta, mouse, ball, lball, paddle, enemies, panicked, core, tracker>>

\* the end of Update: the queued commands are applied
apply_deferred ==
  /\ pending = {}
  /\ world.trans.cmds # << >>
  /\ world' = [world EXCEPT !.trans = [apply_cmds(@, @.cmds, 1) EXCEPT !.cmds = << >>]]
  /\ fx' = [NoFx EXCEPT !.system = "apply_deferred"]
  /\ UNCHANGED <<now, delta, pending, mouse, ball, lball, paddle, enemies, panicked, core,
                 tracker>>

ScreenSystems == {"request_screen", "start_transition_anim", "transition_out",
                  "transition_in", "tween_factor_circle", "tween_factor_final"}
\* a new frame: the StateTransition schedule applies the NextState that is
\* set, then every system of Update is due
begin_screen_frame ==
  /\ pending = {}
  /\ world.trans.cmds = << >>
  /\ delta' \in Dts
  /\ pending' = ScreenSystems
  /\ world' = [world EXCEPT !.trans.screen = IF world.trans.next_state # "None"
                                             THEN world.trans.next_state ELSE @,
                            !.trans.next_state = "None"]
  /\ fx' = NoFx
  /\ UNCHANGED <<now, mouse, ball, lball, paddle, enemies, panicked, core, tracker>>

NextScreen ==
  \/ begin_screen_frame
  \/ request_screen
  \/ start_transition_anim
  \/ transition_out
  \/ transition_in
  \/ tween_factor_circle
  \/ tween_factor_final
  \/ apply_deferred
\* the frames follow one another and every system of Update runs in every
\* frame
SpecScreen ==
  /\ Init /\ [][NextScreen]_vars
  /\ WF_vars(begin_screen_frame) /\ WF_vars(apply_deferred)
  /\ \A system \in ScreenSystems : WF_pending(Runs(system))

\* C36 as stated: every screen requested through NextTransitionedState::set
\* eventually is the Screen state, also when it is requested while circles
\* carry a tween; NextState is set through this path only by a run of
\* transition_out that finds a circle whose tween has factor 1
C36_RequestedScreenReached ==
  /\ \A s \in {"Game", "Tutorial", "GameOver"} :
       (fx.requested = s) ~> (world.trans.screen = s)
  /\ [][world'.trans.next_state \notin {world.trans.next_state, "None"} =>
          /\ RanNow("transition_out")
          /\ \E i \in 1..NCircles : finished(world.trans.circle[i], i)]_vars
====
